---- MODULE Spec2Model ----
(***************************************************************************)
(* Shared-firewall coordination of the Hetzner machine driver.             *)
(*                                                                         *)
(* Every node runs its own driver process; the processes share nothing but *)
(* the cloud project (its firewalls and servers).  One step of the model   *)
(* is one request to the cloud API together with the local computation the *)
(* driver does on the answer, up to its next request.                      *)
(***************************************************************************)
EXTENDS Naturals, Integers, Sequences, FiniteSets, TLC

\* ------------------------------------------------------------------ bounds

\* Number of driver processes (one per node) that run Create and Remove.
MaxNodes == 2

\* Number of driver processes that run Create concurrently in SpecJoin.
MaxJoiners == 3

\* Number of API requests the cloud may answer with an injected error.
MaxFaults == 1

\* Number of injected API errors in SpecRetry: enough to fail every attempt of
\* one call of add or remove.
MaxRetryFaults == 10

\* The addresses, the length of source lists and the repeated calls of the
\* pure rule functions.
MaxAddresses == 3
MaxSources == 2
MaxCalls == 2

\* Cluster IDs: the lengths of the free text before and after a run of letters.
MaxPrefix == 2
MaxSuffix == 3

\* How often an error is wrapped (fmt.Errorf with %w) before it is classified.
MaxWraps == 2

\* Retry delays: the largest attempt number retryDelay is called with, and
\* the number of steps the random factor of the jitter is divided into.
MaxAttempt == 12
MaxJitterSteps == 4

\* ------------------------------------------------------- program constants

maxFirewallRetries == 10

hetznerLabelMaxLen == 63

\* time.Duration values, in microseconds: 100 * time.Millisecond and
\* 5 * time.Second.
retryBaseDelay == 100000

retryMaxDelay == 5000000

retryBackoffMultiplier == 2

internalRuleSuffix == "(cluster nodes only)"

\* ------------------------------------------------------------- rule values

Nil == "<nil>"

\* A nil error, and an API or driver error with its code.
NoErr == [code |-> "nil"]

Err(code) == [code |-> code]

\* A nil *hcloud.Firewall.
NoFirewall == [ID |-> 0]

\* net.IPNet, compared by the driver through String(): address and prefix length.
IPNet(ip, ones) == [IP |-> ip, Mask |-> ones]

IPNetString(n) == <<n.IP, n.Mask>>

mustParseCIDR(ip, ones) == IPNet(ip, ones)

\* ipToIPNet: an IPv4 address becomes a single-host /32 range.
ipToIPNet(ipStr) == IPNet(ipStr, 32)

FirewallRule(dir, proto, port, src, dst, desc) ==
    [Direction |-> dir, Protocol |-> proto, Port |-> port,
     SourceIPs |-> src, DestinationIPs |-> dst, Description |-> desc]

anySource == <<mustParseCIDR("0.0.0.0", 0), mustParseCIDR("::", 0)>>

rke2PublicRules ==
    << FirewallRule("in", "tcp", "22", anySource, <<>>, "SSH"),
       FirewallRule("in", "tcp", "6443", anySource, <<>>, "Kubernetes API server"),
       FirewallRule("in", "tcp", "30000-32767", anySource, <<>>, "NodePort services (TCP)"),
       FirewallRule("in", "udp", "30000-32767", anySource, <<>>, "NodePort services (UDP)"),
       FirewallRule("in", "icmp", Nil, anySource, <<>>, "ICMP"),
       FirewallRule("out", "tcp", "1-65535", <<>>, anySource, "All outbound TCP"),
       FirewallRule("out", "udp", "1-65535", <<>>, anySource, "All outbound UDP"),
       FirewallRule("out", "icmp", Nil, <<>>, anySource, "All outbound ICMP") >>

\* The texts that precede the marker in the descriptions the driver writes.
InternalDescriptionStems ==
    << "RKE2 supervisor API ", "etcd client, peer, and metrics ", "kubelet metrics ",
       "VXLAN overlay ", "Canal CNI health checks ", "WireGuard IPv4/IPv6 " >>

\* Faulty variant: the last internal rule is built from the first address only.
rke2InternalRulesStale(nodeIPs) ==
    IF Len(nodeIPs) = 0 THEN <<>>
    ELSE
    << FirewallRule("in", "tcp", "9345", nodeIPs, <<>>, InternalDescriptionStems[1] \o internalRuleSuffix),
       FirewallRule("in", "tcp", "2379-2381", nodeIPs, <<>>, InternalDescriptionStems[2] \o internalRuleSuffix),
       FirewallRule("in", "tcp", "10250", nodeIPs, <<>>, InternalDescriptionStems[3] \o internalRuleSuffix),
       FirewallRule("in", "udp", "8472", nodeIPs, <<>>, InternalDescriptionStems[4] \o internalRuleSuffix),
       FirewallRule("in", "tcp", "9099", nodeIPs, <<>>, InternalDescriptionStems[5] \o internalRuleSuffix),
       FirewallRule("in", "udp", "51820-51821", SubSeq(nodeIPs, 1, 1), <<>>,
                    InternalDescriptionStems[6] \o internalRuleSuffix) >>

rke2InternalRules(nodeIPs) ==
    IF Len(nodeIPs) = 0 THEN <<>>
    ELSE
    << FirewallRule("in", "tcp", "9345", nodeIPs, <<>>, InternalDescriptionStems[1] \o internalRuleSuffix),
       FirewallRule("in", "tcp", "2379-2381", nodeIPs, <<>>, InternalDescriptionStems[2] \o internalRuleSuffix),
       FirewallRule("in", "tcp", "10250", nodeIPs, <<>>, InternalDescriptionStems[3] \o internalRuleSuffix),
       FirewallRule("in", "udp", "8472", nodeIPs, <<>>, InternalDescriptionStems[4] \o internalRuleSuffix),
       FirewallRule("in", "tcp", "9099", nodeIPs, <<>>, InternalDescriptionStems[5] \o internalRuleSuffix),
       FirewallRule("in", "udp", "51820-51821", nodeIPs, <<>>, InternalDescriptionStems[6] \o internalRuleSuffix) >>

\* Faulty variant: the description has to be the marker itself.
IsSuffixItself(s, suffix) == s = suffix

\* strings.HasSuffix over the descriptions that occur: those of the public
\* rules (no marker) and a stem followed by the marker.
HasSuffix(s, suffix) ==
    \E i \in 1..Len(InternalDescriptionStems) : s = InternalDescriptionStems[i] \o suffix

isInternalRule(rule) ==
    IF rule.Description = Nil THEN FALSE
    ELSE HasSuffix(rule.Description, internalRuleSuffix)

\* ------------------------------------------------------------ rule helpers

RECURSIVE SeqContains(_, _)
SeqContains(s, x) ==
    IF s = <<>> THEN FALSE
    ELSE IF IPNetString(Head(s)) = IPNetString(x) THEN TRUE
    ELSE SeqContains(Tail(s), x)

RECURSIVE SelectRules(_, _)
\* The rules of a list, in order, whose isInternalRule equals `internal`.
SelectRules(rules, internal) ==
    IF rules = <<>> THEN <<>>
    ELSE IF isInternalRule(Head(rules)) = internal
         THEN <<Head(rules)>> \o SelectRules(Tail(rules), internal)
         ELSE SelectRules(Tail(rules), internal)

\* Faulty variant: every source is appended, seen before or not.
AppendAll(ips, srcs) == ips \o srcs

RECURSIVE AppendUnseen(_, _)
\* Appends to ips the elements of srcs not yet in it (the seen map).
AppendUnseen(ips, srcs) ==
    IF srcs = <<>> THEN ips
    ELSE IF SeqContains(ips, Head(srcs)) THEN AppendUnseen(ips, Tail(srcs))
    ELSE AppendUnseen(Append(ips, Head(srcs)), Tail(srcs))

RECURSIVE CollectFrom(_, _)
CollectFrom(rules, ips) ==
    IF rules = <<>> THEN ips
    ELSE IF ~isInternalRule(Head(rules)) THEN CollectFrom(Tail(rules), ips)
    ELSE CollectFrom(Tail(rules), AppendUnseen(ips, Head(rules).SourceIPs))

\* collectNodeIPs: the unique source addresses of the internal rules, in
\* order of first appearance.
collectNodeIPs(rules) == CollectFrom(rules, <<>>)

\* firewallHasNodeIP: some internal rule has the address among its sources.
firewallHasNodeIP(rules, nodeIP) ==
    \E i \in 1..Len(rules) :
        /\ isInternalRule(rules[i])
        /\ SeqContains(rules[i].SourceIPs, nodeIP)

\* Faulty variant: the new address is appended without looking for it.
rebuildRulesWithNodeIPAppending(currentRules, nodeIP) ==
    SelectRules(currentRules, FALSE)
        \o rke2InternalRules(Append(collectNodeIPs(currentRules), nodeIP))

\* Faulty variant: the rebuilt internal rules hold the new address only.
rebuildRulesWithNodeIPOnly(currentRules, nodeIP) ==
    SelectRules(currentRules, FALSE) \o rke2InternalRules(<<nodeIP>>)

rebuildRulesWithNodeIP(currentRules, nodeIP) ==
    LET nodeIPs == collectNodeIPs(currentRules)
        withNew == IF SeqContains(nodeIPs, nodeIP) THEN nodeIPs
                   ELSE Append(nodeIPs, nodeIP)
    IN  SelectRules(currentRules, FALSE) \o rke2InternalRules(withNew)

\* Faulty variant: no address is left when one is taken out.
WithoutAny(ips, nodeIP) == <<>>

RECURSIVE Without(_, _)
Without(ips, nodeIP) ==
    IF ips = <<>> THEN <<>>
    ELSE IF IPNetString(Head(ips)) # IPNetString(nodeIP)
         THEN <<Head(ips)>> \o Without(Tail(ips), nodeIP)
         ELSE Without(Tail(ips), nodeIP)

\* Faulty variant: the rebuilt internal rules are put in front of the others.
rebuildRulesWithoutNodeIPInFront(currentRules, nodeIP) ==
    rke2InternalRules(Without(collectNodeIPs(currentRules), nodeIP))
        \o SelectRules(currentRules, FALSE)

rebuildRulesWithoutNodeIP(currentRules, nodeIP) ==
    LET remainingIPs == Without(collectNodeIPs(currentRules), nodeIP)
    IN  SelectRules(currentRules, FALSE)
            \o (IF Len(remainingIPs) > 0 THEN rke2InternalRules(remainingIPs) ELSE <<>>)


\* ------------------------------------------------------------------- state

VARIABLES
    firewalls,       \* cloud: firewall id -> firewall, for the firewalls that exist
    nextFirewallID,  \* cloud: id the next created firewall gets
    servers,         \* cloud: ids of the servers that exist
    budget,          \* number of API errors the cloud may still inject
    d,               \* per node: the Driver struct's fields
    pc,              \* per node: the request the process issues next
    loc,             \* per node: local variables of the running call
    log,             \* per node: what the running call has done (observation only)
    expired,         \* per node: the deadline of the running Create or Remove has passed
    calc             \* a call of one of the driver's pure functions: its arguments and result

vars == <<firewalls, nextFirewallID, servers, budget, d, pc, loc, log, expired, calc>>

\* The driver processes of the behaviour.
Nodes == DOMAIN pc

\* The cluster all nodes of the model belong to.
ClusterID == "demo"

\* Machine configurations (flags) a node may be created with.  PreCreateCheck
\* has accepted them: no auto rules without a public IPv4.
Configs ==
    << [CreateFirewall |-> TRUE,  AutoCreateFirewallRules |-> TRUE,  FirewallName |-> "",
        DisablePublicIPv4 |-> FALSE],
       [CreateFirewall |-> TRUE,  AutoCreateFirewallRules |-> FALSE, FirewallName |-> "",
        DisablePublicIPv4 |-> FALSE],
       [CreateFirewall |-> TRUE,  AutoCreateFirewallRules |-> TRUE,  FirewallName |-> "pool-fw",
        DisablePublicIPv4 |-> FALSE],
       [CreateFirewall |-> FALSE, AutoCreateFirewallRules |-> FALSE, FirewallName |-> "",
        DisablePublicIPv4 |-> FALSE] >>

\* The public IPv4 the cloud gives node n's server.
ServerIPv4(n) == "10.0.0." \o ToString(n)

NodeIP(n) == ipToIPNet(d[n].PublicIPv4)

NoLoc == [attempt |-> 0, fw |-> NoFirewall, created |-> FALSE, phase |-> "create", err |-> NoErr]

\* What a node's calls have done so far: iterations begun and backoff sleeps
\* begun by add and by remove, the call in which the deadline passed, whether
\* the attach failed, server and SSH key deletions issued,
\* requests issued (lookups, creates,
\* rule submissions of add and of remove, firewall deletes), whether a create
\* was rejected, whether a verification read of add showed the firewall
\* without the address, which read of add came last and whether it showed the address,
\* the answer to the last rule submission,
\* the last lookup's error and the outcomes of add, remove and the orphan
\* check (Nil while the call has not returned).
NoLog == [iters |-> 0, sleeps |-> 0, rmIters |-> 0, rmSleeps |-> 0, expiredIn |-> Nil,
          attachFailed |-> FALSE, srvDeletes |-> 0, keyDeletes |-> 0,
          finds |-> 0, creates |-> 0, rejected |-> FALSE, submits |-> 0, rmSubmits |-> 0,
          deletes |-> 0, verifyFailed |-> FALSE, lastRead |-> Nil, lastReadHas |-> FALSE,
          answer |-> Nil, findErr |-> NoErr, add |-> Nil, remove |-> Nil, reap |-> Nil]

\* A driver as NewDriver and SetConfigFromFlags leave it for configuration c.
NewDriver(c) ==
    [CreateFirewall |-> c.CreateFirewall,
     AutoCreateFirewallRules |-> c.AutoCreateFirewallRules,
     FirewallName |-> c.FirewallName,
     DisablePublicIPv4 |-> c.DisablePublicIPv4,
     ClusterID |-> ClusterID,
     ServerID |-> 0, FirewallID |-> 0, PublicIPv4 |-> ""]

\* No call of a pure function is followed.
NoCalc == [fn |-> Nil]

\* An empty cloud project and `count` nodes not yet created, each with one
\* of the configurations; the cloud may inject `errors` API errors.  The
\* processes differ in nothing but their number, so the configurations are
\* taken in the order of the list.
Start(count, errors) ==
    /\ firewalls = << >>
    /\ nextFirewallID = 1
    /\ servers = {}
    /\ budget = errors
    /\ \E c \in [1..count -> 1..Len(Configs)] :
          /\ \A i, j \in 1..count : i <= j => c[i] <= c[j]
          /\ d = [n \in 1..count |-> NewDriver(Configs[c[n]])]
    /\ pc = [n \in 1..count |-> "new"]
    /\ loc = [n \in 1..count |-> NoLoc]
    /\ log = [n \in 1..count |-> NoLog]
    /\ expired = [n \in 1..count |-> FALSE]
    /\ calc = NoCalc

Init == Start(MaxNodes, MaxFaults)

\* SpecRetry follows one node on its own.
RetryNodes == {1}

\* The server of the node that created the cluster's firewall earlier.
FirstServer == 9

\* The cluster's firewall as an earlier node created it and left it: with the
\* automatic rules for that node's address, applied to that node's server.
FirstFirewall ==
    [ID |-> 1,
     Name |-> "rancher-" \o ClusterID,
     Labels |-> [managedBy |-> "rancher-machine", cluster |-> ClusterID],
     Rules |-> rke2PublicRules \o rke2InternalRules(<<ipToIPNet(ServerIPv4(FirstServer))>>),
     AppliedTo |-> {FirstServer}]

\* A project in which the cluster's firewall exists, and one node not yet
\* created that either manages the firewall or is a member of the cluster.
InitRetry ==
    /\ firewalls = [id \in {1} |-> FirstFirewall]
    /\ nextFirewallID = 2
    /\ servers = {FirstServer}
    /\ budget = MaxRetryFaults
    /\ \E c \in {1, Len(Configs)} : d = [n \in RetryNodes |-> NewDriver(Configs[c])]
    /\ pc = [n \in RetryNodes |-> "new"]
    /\ loc = [n \in RetryNodes |-> NoLoc]
    /\ log = [n \in RetryNodes |-> NoLog]
    /\ expired = [n \in RetryNodes |-> FALSE]
    /\ calc = NoCalc

InitJoin == Start(MaxJoiners, 0)


\* ------------------------------------------------------------ the cloud API

\* Whether a request of node n fails: it fails with the context's error once
\* the deadline has passed; otherwise an injected API error is possible while
\* the budget lasts.
FaultChoices(n) ==
    IF expired[n] THEN {TRUE}
    ELSE IF budget > 0 THEN {FALSE, TRUE} ELSE {FALSE}

\* The budget after the request: only injected errors are counted.
Count(n, fail) == IF fail /\ ~expired[n] THEN budget - 1 ELSE budget

Exists(id) == id \in DOMAIN firewalls

\* Firewall.GetByID: the firewall, or NoFirewall (nil) when it does not exist.
GetByID(id) == IF Exists(id) THEN firewalls[id] ELSE NoFirewall

firewallIdentifier(n) == d[n].ClusterID

Selector(n) == "managed-by=rancher-machine,cluster=" \o firewallIdentifier(n)

\* Firewall.AllWithOpts with the label selector.
Matching(n) ==
    { id \in DOMAIN firewalls :
        /\ firewalls[id].Labels.managedBy = "rancher-machine"
        /\ firewalls[id].Labels.cluster = firewallIdentifier(n) }

\* Faulty variant: an ambiguous result is resolved by picking one match.
findSharedFirewallPicking(n, fail) ==
    IF fail THEN [err |-> Err("list_failed"), fw |-> NoFirewall]
    ELSE IF Matching(n) = {} THEN [err |-> NoErr, fw |-> NoFirewall]
    ELSE [err |-> NoErr, fw |-> firewalls[CHOOSE id \in Matching(n) : TRUE]]

\* findSharedFirewall: [err, fw]; no firewall and no error means none found.
findSharedFirewall(n, fail) ==
    IF fail THEN [err |-> Err("list_failed"), fw |-> NoFirewall]
    ELSE IF Cardinality(Matching(n)) = 0 THEN [err |-> NoErr, fw |-> NoFirewall]
    ELSE IF Cardinality(Matching(n)) > 1
         THEN [err |-> [code |-> "multiple", selector |-> Selector(n),
                        count |-> Cardinality(Matching(n))],
               fw |-> NoFirewall]
    ELSE [err |-> NoErr, fw |-> firewalls[CHOOSE id \in Matching(n) : TRUE]]

\* The name findOrCreateSharedFirewall creates the firewall under.
CreateName(n) ==
    IF d[n].FirewallName = "" THEN "rancher-" \o firewallIdentifier(n)
    ELSE d[n].FirewallName

\* The rules findOrCreateSharedFirewall creates the firewall with.
CreateRules(n) ==
    IF d[n].AutoCreateFirewallRules
    THEN rke2PublicRules \o rke2InternalRules(<<NodeIP(n)>>)
    ELSE <<>>

\* The cloud rejects a second firewall of the same name (uniqueness_error).
NameTaken(name) == \E id \in DOMAIN firewalls : firewalls[id].Name = name

WithFirewall(id, fw) ==
    [i \in DOMAIN firewalls \cup {id} |-> IF i = id THEN fw ELSE firewalls[i]]

WithoutFirewall(id) == [i \in DOMAIN firewalls \ {id} |-> firewalls[i]]

\* Deleting a server removes it from every firewall it was applied to.
Detached(srv) ==
    [i \in DOMAIN firewalls |->
        [firewalls[i] EXCEPT !.AppliedTo = firewalls[i].AppliedTo \ {srv}]]

\* Faulty variant: the delete goes through while the firewall is in use.
DeleteAnswerInUse(id, fail) ==
    IF fail THEN "server_error"
    ELSE IF ~Exists(id) THEN "not_found"
    ELSE "ok"

\* Firewall.Delete, as deleteFirewallIfOrphaned sees it answered.
DeleteAnswer(id, fail) ==
    IF fail THEN "server_error"
    ELSE IF ~Exists(id) THEN "not_found"
    ELSE IF firewalls[id].AppliedTo # {} THEN "resource_in_use"
    ELSE "ok"


\* ------------------------------------------------------------ control flow

\* Where the process goes when deleteFirewallIfOrphaned has returned:
\* setupFirewall then fails and Create cleans the server up; Remove returns.
AfterReap(n) == IF loc[n].phase = "create" THEN "cleanup" ELSE "removed"

\* deleteFirewallIfOrphaned returns at once when no firewall id is recorded.
EnterReap(n) == IF d[n].FirewallID = 0 THEN AfterReap(n) ELSE "reapRead"

\* Where the process goes when removeNodeFromFirewall has returned.
AfterRemoveNode(n, phase) == IF phase = "create" THEN EnterReap(n) ELSE "srvDelete"

\* removeNodeFromFirewall returns at once without a firewall id or an address.
EnterRemoveNode(n, phase) ==
    IF d[n].FirewallID = 0 \/ d[n].PublicIPv4 = "" THEN AfterRemoveNode(n, phase)
    ELSE "rmRead"

\* Faulty variant: a failed add is fatal for every node.
AfterAddFatal(n, err) ==
    IF err = NoErr THEN "created" ELSE EnterRemoveNode(n, "create")

\* Where the process goes when addNodeToFirewall has returned err: a failure
\* is fatal in setupFirewall and only logged in registerWithClusterFirewall.
AfterAdd(n, err) ==
    IF ~d[n].CreateFirewall \/ err = NoErr THEN "created"
    ELSE EnterRemoveNode(n, "create")

\* Faulty variant: the loop's condition lets one more attempt through.
ExhaustedLate(n) == loc[n].attempt + 1 > maxFirewallRetries

\* The loop's `continue`: the next attempt, or the exhaustion error.
Exhausted(n) == loc[n].attempt + 1 >= maxFirewallRetries

\* -------------------------------------------------------------- Create

\* Create up to the first firewall request: the server exists and, where
\* the node registers an address, its public IPv4 has been fetched.
CreateServer(n) ==
    /\ pc[n] = "new"
    /\ UNCHANGED <<expired, calc>>
    /\ servers' = servers \cup {n}
    /\ LET owner == d[n].CreateFirewall
           member == ~owner /\ d[n].ClusterID # "" /\ ~d[n].DisablePublicIPv4
           ip == IF (owner \/ member) /\ ~d[n].DisablePublicIPv4 THEN ServerIPv4(n) ELSE ""
       IN  /\ d' = [d EXCEPT ![n].ServerID = n, ![n].PublicIPv4 = ip]
           /\ pc' = [pc EXCEPT ![n] = IF owner THEN "find"
                                      ELSE IF member THEN "regFind" ELSE "created"]
    /\ loc' = [loc EXCEPT ![n] = NoLoc]
    /\ log' = [log EXCEPT ![n] = NoLog]
    /\ UNCHANGED <<firewalls, nextFirewallID, budget>>

\* findOrCreateSharedFirewall: the first lookup.
Find(n) ==
    /\ pc[n] = "find"
    /\ UNCHANGED <<expired, calc>>
    /\ \E fail \in FaultChoices(n) :
        LET r == findSharedFirewall(n, fail) IN
        /\ budget' = Count(n, fail)
        /\ IF r.err # NoErr
           THEN /\ pc' = [pc EXCEPT ![n] = "cleanup"]
                /\ loc' = [loc EXCEPT ![n].err = r.err]
                /\ d' = d
           ELSE IF r.fw # NoFirewall
           THEN /\ pc' = [pc EXCEPT ![n] = "attach"]
                /\ loc' = [loc EXCEPT ![n].created = FALSE]
                /\ d' = [d EXCEPT ![n].FirewallID = r.fw.ID]
           ELSE /\ pc' = [pc EXCEPT ![n] = "createFw"]
                /\ UNCHANGED <<loc, d>>
        /\ log' = [log EXCEPT ![n].findErr = r.err, ![n].finds = @ + 1]
    /\ UNCHANGED <<firewalls, nextFirewallID, servers>>

\* findOrCreateSharedFirewall: the create request.
CreateFw(n) ==
    /\ pc[n] = "createFw"
    /\ UNCHANGED <<expired, calc>>
    /\ \E fail \in FaultChoices(n) :
        /\ budget' = Count(n, fail)
        /\ log' = [log EXCEPT ![n].creates = @ + 1,
                              ![n].rejected = fail \/ NameTaken(CreateName(n))]
        /\ IF fail \/ NameTaken(CreateName(n))
           THEN /\ pc' = [pc EXCEPT ![n] = "find2"]
                /\ loc' = [loc EXCEPT ![n].err =
                              Err(IF fail THEN "server_error" ELSE "uniqueness_error")]
                /\ UNCHANGED <<firewalls, nextFirewallID, d>>
           ELSE /\ firewalls' = WithFirewall(nextFirewallID,
                                   [ID |-> nextFirewallID,
                                    Name |-> CreateName(n),
                                    Labels |-> [managedBy |-> "rancher-machine",
                                                cluster |-> firewallIdentifier(n)],
                                    Rules |-> CreateRules(n),
                                    AppliedTo |-> {}])
                /\ nextFirewallID' = nextFirewallID + 1
                /\ d' = [d EXCEPT ![n].FirewallID = nextFirewallID]
                /\ loc' = [loc EXCEPT ![n].created = TRUE]
                /\ pc' = [pc EXCEPT ![n] = "attach"]
    /\ UNCHANGED servers

\* Faulty variant: a failed create is final, whatever the second lookup finds.
Find2Discarding(n) ==
    /\ pc[n] = "find2"
    /\ UNCHANGED <<expired, calc>>
    /\ \E fail \in FaultChoices(n) :
        LET r == findSharedFirewall(n, fail) IN
        /\ budget' = Count(n, fail)
        /\ pc' = [pc EXCEPT ![n] = "cleanup"]
        /\ log' = [log EXCEPT ![n].findErr = r.err, ![n].finds = @ + 1]
    /\ UNCHANGED <<firewalls, nextFirewallID, servers, loc, d>>

\* Faulty variant: when the second lookup fails, the create is tried again.
Find2Again(n) ==
    /\ pc[n] = "find2"
    /\ UNCHANGED <<expired, calc>>
    /\ \E fail \in FaultChoices(n) :
        LET r == findSharedFirewall(n, fail) IN
        /\ budget' = Count(n, fail)
        /\ IF r.err # NoErr \/ r.fw = NoFirewall
           THEN /\ pc' = [pc EXCEPT ![n] = "createFw"]
                /\ UNCHANGED <<loc, d>>
           ELSE /\ pc' = [pc EXCEPT ![n] = "attach"]
                /\ loc' = [loc EXCEPT ![n].created = FALSE, ![n].err = NoErr]
                /\ d' = [d EXCEPT ![n].FirewallID = r.fw.ID]
        /\ log' = [log EXCEPT ![n].findErr = r.err, ![n].finds = @ + 1]
    /\ UNCHANGED <<firewalls, nextFirewallID, servers>>

\* findOrCreateSharedFirewall: the lookup after a failed create.
Find2(n) ==
    /\ pc[n] = "find2"
    /\ UNCHANGED <<expired, calc>>
    /\ \E fail \in FaultChoices(n) :
        LET r == findSharedFirewall(n, fail) IN
        /\ budget' = Count(n, fail)
        /\ IF r.err # NoErr \/ r.fw = NoFirewall
           THEN /\ pc' = [pc EXCEPT ![n] = "cleanup"]
                /\ UNCHANGED <<loc, d>>
           ELSE /\ pc' = [pc EXCEPT ![n] = "attach"]
                /\ loc' = [loc EXCEPT ![n].created = FALSE, ![n].err = NoErr]
                /\ d' = [d EXCEPT ![n].FirewallID = r.fw.ID]
        /\ log' = [log EXCEPT ![n].findErr = r.err, ![n].finds = @ + 1]
    /\ UNCHANGED <<firewalls, nextFirewallID, servers>>

\* attachFirewallToServer, then setupFirewall's choice of what follows.
Attach(n) ==
    /\ pc[n] = "attach"
    /\ UNCHANGED <<expired, calc>>
    /\ \E fail \in FaultChoices(n) :
        LET id == d[n].FirewallID
            answer == IF fail THEN "server_error"
                      ELSE IF ~Exists(id) THEN "not_found"
                      ELSE IF d[n].ServerID \in firewalls[id].AppliedTo
                           THEN "firewall_already_applied"
                      ELSE "ok"
            err == IF answer \in {"ok", "firewall_already_applied"} THEN NoErr
                   ELSE Err(answer)
        IN
        /\ budget' = Count(n, fail)
        /\ firewalls' = IF answer = "ok"
                        THEN [firewalls EXCEPT ![id].AppliedTo = @ \cup {d[n].ServerID}]
                        ELSE firewalls
        /\ log' = [log EXCEPT ![n].attachFailed = (err # NoErr)]
        /\ IF err # NoErr
           THEN /\ pc' = [pc EXCEPT ![n] = EnterReap(n)]
                /\ loc' = [loc EXCEPT ![n].err = err]
           ELSE IF ~loc[n].created /\ d[n].PublicIPv4 # ""
           THEN /\ pc' = [pc EXCEPT ![n] = "addRead"]
                /\ loc' = [loc EXCEPT ![n].attempt = 0]
           ELSE /\ pc' = [pc EXCEPT ![n] = "created"]
                /\ loc' = loc
    /\ UNCHANGED <<nextFirewallID, servers, d>>

\* registerWithClusterFirewall: look the cluster's firewall up and, when
\* there is one, record its id and add the node's address.
RegFind(n) ==
    /\ pc[n] = "regFind"
    /\ UNCHANGED <<expired, calc>>
    /\ \E fail \in FaultChoices(n) :
        LET r == findSharedFirewall(n, fail) IN
        /\ budget' = Count(n, fail)
        /\ IF r.err # NoErr \/ r.fw = NoFirewall
           THEN /\ pc' = [pc EXCEPT ![n] = "created"]
                /\ UNCHANGED <<loc, d>>
           ELSE /\ pc' = [pc EXCEPT ![n] = "addRead"]
                /\ loc' = [loc EXCEPT ![n].attempt = 0]
                /\ d' = [d EXCEPT ![n].FirewallID = r.fw.ID]
        /\ log' = [log EXCEPT ![n].findErr = r.err, ![n].finds = @ + 1]
    /\ UNCHANGED <<firewalls, nextFirewallID, servers>>


\* ---------------------------------------------------- addNodeToFirewall

\* Faulty variant: a conflict is taken to be permanent, too.
isNonRetriableErrorOrConflict(code) ==
    code \in {"unauthorized", "forbidden", "token_readonly", "invalid_input", "not_found",
              "conflict"}

\* Faulty variant: every API error is taken to be retriable.
isNonRetriableErrorNever(code) == FALSE

isNonRetriableError(code) ==
    code \in {"unauthorized", "forbidden", "token_readonly", "invalid_input", "not_found"}

\* How the cloud may answer node n's Firewall.SetRules for firewall id: the
\* context's error once the deadline has passed; otherwise an injected
\* transient or terminal error, not_found for a deleted firewall, or ok.
SetRulesAnswers(n, id) ==
    IF expired[n] THEN {"canceled"}
    ELSE {IF Exists(id) THEN "ok" ELSE "not_found"}
            \cup (IF budget > 0 THEN {"conflict", "forbidden"} ELSE {})

Injected(answer) == answer \in {"conflict", "forbidden"}

\* addNodeToFirewall returns: the outcome is logged, the locals are dropped.
AddReturns(n, err) ==
    /\ pc' = [pc EXCEPT ![n] = AfterAdd(n, err)]
    /\ loc' = [loc EXCEPT ![n].fw = NoFirewall, ![n].attempt = 0, ![n].err = err]

\* The error of addNodeToFirewall after the last attempt.
ExhaustionError(n) ==
    [code |-> "exhausted", address |-> d[n].PublicIPv4, retries |-> maxFirewallRetries]

\* The error of addNodeToFirewall when the read that starts an attempt
\* fails: it wraps the error of the request.
GetFailed(n) ==
    [code |-> "get_failed",
     cause |-> IF expired[n] THEN "context_deadline_exceeded" ELSE "server_error"]

\* `continue` in addNodeToFirewall.
AddContinues(n) ==
    IF Exhausted(n) THEN AddReturns(n, ExhaustionError(n))
    ELSE /\ pc' = [pc EXCEPT ![n] = "addRead"]
         /\ loc' = [loc EXCEPT ![n].fw = NoFirewall, ![n].attempt = @ + 1]

\* What a read of the firewall shows about node n's address (observation).
Shows(fw, n) == fw # NoFirewall /\ firewallHasNodeIP(fw.Rules, NodeIP(n))

\* Faulty variant: the write is trusted, whatever the verification read shows.
PersistedAssumed(fw, n) == TRUE

\* Faulty variant: the verification read never counts as a confirmation.
PersistedNever(fw, n) == FALSE

\* The verification after a submission: the address is in what was read.
Persisted(fw, n) == fw # NoFirewall /\ firewallHasNodeIP(fw.Rules, NodeIP(n))

\* Faulty variant: the read that starts an attempt never short-circuits.
AlreadyPresentIgnored(fw, n) == FALSE

\* The short-circuit of add: the read that starts an attempt shows the address.
AlreadyPresent(fw, n) == firewallHasNodeIP(fw.Rules, NodeIP(n))

\* The read that starts an attempt (after the backoff sleep of a retry).
AddRead(n) ==
    /\ pc[n] = "addRead"
    /\ UNCHANGED <<expired, calc>>
    /\ LET began == [log EXCEPT ![n].iters = @ + 1,
                                ![n].sleeps = @ + (IF loc[n].attempt > 0 THEN 1 ELSE 0)]
       IN
       IF loc[n].attempt > 0 /\ expired[n]
       THEN \* the backoff sleep ends on the context's Done channel
            /\ AddReturns(n, Err("canceled"))
            /\ log' = [began EXCEPT ![n].add = "canceled"]
            /\ budget' = budget
       ELSE
       \E fail \in FaultChoices(n) :
        LET fw == GetByID(d[n].FirewallID) IN
        /\ budget' = Count(n, fail)
        /\ IF fail
           THEN /\ AddReturns(n, GetFailed(n))
                /\ log' = [began EXCEPT ![n].add = "get_failed", ![n].lastRead = "initial",
                                        ![n].lastReadHas = FALSE]
           ELSE IF fw = NoFirewall
           THEN /\ AddReturns(n, Err("not_found"))
                /\ log' = [began EXCEPT ![n].add = "gone", ![n].lastRead = "initial",
                                        ![n].lastReadHas = FALSE]
           ELSE IF AlreadyPresent(fw, n)
           THEN /\ AddReturns(n, NoErr)
                /\ log' = [began EXCEPT ![n].add = "ok", ![n].lastRead = "initial",
                                        ![n].lastReadHas = Shows(fw, n)]
           ELSE /\ pc' = [pc EXCEPT ![n] = "addSet"]
                /\ loc' = [loc EXCEPT ![n].fw = [ID |-> fw.ID, Rules |-> fw.Rules]]
                /\ log' = [began EXCEPT ![n].lastRead = "initial",
                                        ![n].lastReadHas = Shows(fw, n)]
    /\ UNCHANGED <<firewalls, nextFirewallID, servers, d>>

\* The full replacement of the rule list by the rebuilt one.
AddSetRules(n) ==
    /\ pc[n] = "addSet"
    /\ UNCHANGED <<expired, calc>>
    /\ \E answer \in SetRulesAnswers(n, loc[n].fw.ID) :
        /\ budget' = Count(n, Injected(answer))
        /\ IF answer = "ok"
           THEN /\ firewalls' = [firewalls EXCEPT ![loc[n].fw.ID].Rules =
                                    rebuildRulesWithNodeIP(loc[n].fw.Rules, NodeIP(n))]
                /\ pc' = [pc EXCEPT ![n] = "addVerify"]
                /\ loc' = loc
                /\ log' = [log EXCEPT ![n].submits = @ + 1, ![n].answer = answer]
           ELSE IF isNonRetriableError(answer)
           THEN /\ AddReturns(n, Err(answer))
                /\ log' = [log EXCEPT ![n].submits = @ + 1, ![n].answer = answer, ![n].add = answer]
                /\ firewalls' = firewalls
           ELSE /\ AddContinues(n)
                /\ log' = [log EXCEPT ![n].submits = @ + 1, ![n].answer = answer,
                                      ![n].add = IF Exhausted(n) THEN "exhausted" ELSE @]
                /\ firewalls' = firewalls
    /\ UNCHANGED <<nextFirewallID, servers, d>>

\* The read that verifies the address was persisted.
AddVerify(n) ==
    /\ pc[n] = "addVerify"
    /\ UNCHANGED <<expired, calc>>
    /\ \E fail \in FaultChoices(n) :
        LET fw == GetByID(d[n].FirewallID) IN
        /\ budget' = Count(n, fail)
        /\ IF fail
           THEN /\ AddContinues(n)
                /\ log' = [log EXCEPT ![n].add = IF Exhausted(n) THEN "exhausted" ELSE @,
                                      ![n].lastRead = "verify", ![n].lastReadHas = FALSE]
           ELSE IF Persisted(fw, n)
           THEN /\ AddReturns(n, NoErr)
                /\ log' = [log EXCEPT ![n].add = "ok", ![n].lastRead = "verify",
                                      ![n].lastReadHas = Shows(fw, n)]
           ELSE /\ AddContinues(n)
                /\ log' = [log EXCEPT ![n].verifyFailed = @ \/ fw # NoFirewall,
                                      ![n].lastRead = "verify", ![n].lastReadHas = Shows(fw, n),
                                      ![n].add = IF Exhausted(n) THEN "exhausted" ELSE @]
    /\ UNCHANGED <<firewalls, nextFirewallID, servers, d>>

\* ----------------------------------------------- removeNodeFromFirewall

\* removeNodeFromFirewall returns; l is the log of the step so far.
RemoveNodeReturnsFrom(l, n, outcome) ==
    /\ pc' = [pc EXCEPT ![n] = AfterRemoveNode(n, loc[n].phase)]
    /\ loc' = [loc EXCEPT ![n].fw = NoFirewall, ![n].attempt = 0]
    /\ log' = [l EXCEPT ![n].remove = outcome]

RemoveNodeReturns(n, outcome) == RemoveNodeReturnsFrom(log, n, outcome)

\* `continue` in removeNodeFromFirewall; l is the log of the step so far.
RemoveNodeContinuesFrom(l, n) ==
    IF Exhausted(n) THEN RemoveNodeReturnsFrom(l, n, "exhausted")
    ELSE /\ pc' = [pc EXCEPT ![n] = "rmRead"]
         /\ loc' = [loc EXCEPT ![n].fw = NoFirewall, ![n].attempt = @ + 1]
         /\ log' = l

RemoveNodeContinues(n) == RemoveNodeContinuesFrom(log, n)

RemoveRead(n) ==
    /\ pc[n] = "rmRead"
    /\ UNCHANGED <<expired, calc>>
    /\ LET began == [log EXCEPT ![n].rmIters = @ + 1,
                                ![n].rmSleeps = @ + (IF loc[n].attempt > 0 THEN 1 ELSE 0)]
       IN
       IF loc[n].attempt > 0 /\ expired[n]
       THEN \* the backoff sleep ends on the context's Done channel
            /\ RemoveNodeReturnsFrom(began, n, "canceled")
            /\ budget' = budget
       ELSE
       \E fail \in FaultChoices(n) :
        LET fw == GetByID(d[n].FirewallID) IN
        /\ budget' = Count(n, fail)
        /\ IF fail THEN RemoveNodeContinuesFrom(began, n)
           ELSE IF fw = NoFirewall THEN RemoveNodeReturnsFrom(began, n, "gone")
           ELSE IF ~firewallHasNodeIP(fw.Rules, NodeIP(n))
                THEN RemoveNodeReturnsFrom(began, n, "absent")
           ELSE /\ pc' = [pc EXCEPT ![n] = "rmSet"]
                /\ loc' = [loc EXCEPT ![n].fw = [ID |-> fw.ID, Rules |-> fw.Rules]]
                /\ log' = began
    /\ UNCHANGED <<firewalls, nextFirewallID, servers, d>>

RemoveSetRules(n) ==
    /\ pc[n] = "rmSet"
    /\ UNCHANGED <<expired, calc>>
    /\ \E answer \in SetRulesAnswers(n, loc[n].fw.ID) :
        /\ budget' = Count(n, Injected(answer))
        /\ IF answer = "ok"
           THEN /\ firewalls' = [firewalls EXCEPT ![loc[n].fw.ID].Rules =
                                    rebuildRulesWithoutNodeIP(loc[n].fw.Rules, NodeIP(n))]
                /\ pc' = [pc EXCEPT ![n] = "rmVerify"]
                /\ loc' = loc
                /\ log' = [log EXCEPT ![n].rmSubmits = @ + 1, ![n].answer = answer]
           ELSE /\ firewalls' = firewalls
                /\ IF isNonRetriableError(answer)
                   THEN /\ pc' = [pc EXCEPT ![n] = AfterRemoveNode(n, loc[n].phase)]
                        /\ loc' = [loc EXCEPT ![n].fw = NoFirewall, ![n].attempt = 0]
                        /\ log' = [log EXCEPT ![n].rmSubmits = @ + 1, ![n].answer = answer, ![n].remove = answer]
                   ELSE IF Exhausted(n)
                   THEN /\ pc' = [pc EXCEPT ![n] = AfterRemoveNode(n, loc[n].phase)]
                        /\ loc' = [loc EXCEPT ![n].fw = NoFirewall, ![n].attempt = 0]
                        /\ log' = [log EXCEPT ![n].rmSubmits = @ + 1, ![n].answer = answer, ![n].remove = "exhausted"]
                   ELSE /\ pc' = [pc EXCEPT ![n] = "rmRead"]
                        /\ loc' = [loc EXCEPT ![n].fw = NoFirewall, ![n].attempt = @ + 1]
                        /\ log' = [log EXCEPT ![n].rmSubmits = @ + 1, ![n].answer = answer]
    /\ UNCHANGED <<nextFirewallID, servers, d>>

RemoveVerify(n) ==
    /\ pc[n] = "rmVerify"
    /\ UNCHANGED <<expired, calc>>
    /\ \E fail \in FaultChoices(n) :
        LET fw == GetByID(d[n].FirewallID) IN
        /\ budget' = Count(n, fail)
        /\ IF fail THEN RemoveNodeContinues(n)
           ELSE IF fw = NoFirewall \/ ~firewallHasNodeIP(fw.Rules, NodeIP(n))
           THEN RemoveNodeReturns(n, "verified")
           ELSE RemoveNodeContinues(n)
    /\ UNCHANGED <<firewalls, nextFirewallID, servers, d>>


\* ------------------------------------------------ deleteFirewallIfOrphaned

ReapReturns(n, outcome) ==
    /\ pc' = [pc EXCEPT ![n] = AfterReap(n)]
    /\ loc' = [loc EXCEPT ![n].fw = NoFirewall]
    /\ log' = [log EXCEPT ![n].reap = outcome]

\* Faulty variant: the orphan check deletes whatever it read.
OrphanedAlways(fw) == TRUE

\* Faulty variant: the orphan check keeps whatever it read.
OrphanedNever(fw) == FALSE

\* The orphan check on the firewall as read.
Orphaned(fw) == ~(Cardinality(fw.AppliedTo) > 0)

\* The read of the firewall and the orphan check on what it shows.
ReapRead(n) ==
    /\ pc[n] = "reapRead"
    /\ UNCHANGED <<expired, calc>>
    /\ \E fail \in FaultChoices(n) :
        LET fw == GetByID(d[n].FirewallID) IN
        /\ budget' = Count(n, fail)
        /\ IF fail THEN ReapReturns(n, "get_failed")
           ELSE IF fw = NoFirewall THEN ReapReturns(n, "gone")
           ELSE IF ~Orphaned(fw) THEN ReapReturns(n, "kept")
           ELSE /\ pc' = [pc EXCEPT ![n] = "reapDelete"]
                /\ loc' = [loc EXCEPT ![n].fw = [ID |-> fw.ID, AppliedTo |-> fw.AppliedTo]]
                /\ log' = log
    /\ UNCHANGED <<firewalls, nextFirewallID, servers, d>>

\* Faulty variant: a delete rejected as in-use is handled like any failure.
ReapOutcomeStrict(answer) == IF answer = "ok" THEN "deleted" ELSE "delete_failed"

\* How deleteFirewallIfOrphaned takes the answer to its delete request: a
\* firewall that became in use is kept, which is not a failure.
ReapOutcome(answer) ==
    IF answer = "ok" THEN "deleted"
    ELSE IF answer = "resource_in_use" THEN "in_use"
    ELSE "delete_failed"

\* The delete request for the firewall read as orphaned.
ReapDelete(n) ==
    /\ pc[n] = "reapDelete"
    /\ UNCHANGED <<expired, calc>>
    /\ \E fail \in FaultChoices(n) :
        LET answer == DeleteAnswer(loc[n].fw.ID, fail) IN
        /\ budget' = Count(n, fail)
        /\ firewalls' = IF answer = "ok" THEN WithoutFirewall(loc[n].fw.ID) ELSE firewalls
        /\ pc' = [pc EXCEPT ![n] = AfterReap(n)]
        /\ loc' = [loc EXCEPT ![n].fw = NoFirewall]
        /\ log' = [log EXCEPT ![n].deletes = @ + 1,
                              ![n].reap = ReapOutcome(answer)]
    /\ UNCHANGED <<nextFirewallID, servers, d>>

\* -------------------------------------------------- Remove, cleanupServer

\* Faulty variant: Remove runs the orphan check whoever owns the firewall.
RunsOrphanCheckAlways(n) == TRUE

\* Remove runs the orphan check only for a node that manages the firewall.
RunsOrphanCheck(n) == d[n].CreateFirewall

\* Remove of a created node, up to the first request of removeNodeFromFirewall.
Remove(n) ==
    /\ pc[n] = "created"
    /\ expired' = [expired EXCEPT ![n] = FALSE]
    /\ UNCHANGED calc
    /\ pc' = [pc EXCEPT ![n] = EnterRemoveNode(n, "remove")]
    /\ loc' = [loc EXCEPT ![n].phase = "remove", ![n].err = NoErr]
    /\ log' = [log EXCEPT ![n].remove = IF EnterRemoveNode(n, "remove") = "rmRead"
                                        THEN @ ELSE "skipped"]
    /\ UNCHANGED <<firewalls, nextFirewallID, servers, budget, d>>

\* Where the requests that delete the server and the SSH key can fail: the
\* read of the server, its delete request, or the read of the key; once the
\* deadline has passed every request fails before it is sent.
DeletionFaults(n) ==
    IF expired[n] THEN {"deadline"}
    ELSE IF budget > 0 THEN {"none", "srvGet", "srvDelete", "keyGet"}
    ELSE {"none"}

\* The delete request for the server is sent when the read of the server
\* succeeded, and takes effect unless it fails.
ServerDeleteIssued(at) == at \notin {"deadline", "srvGet"}

ServerDeleted(at) == at \in {"none", "keyGet"}

\* Faulty variant: the key is deleted only when the server deletion went through.
KeyDeleteIssuedWithServer(at) == at \in {"none"}

\* deleteSSHKey sends its delete request when its read of the key succeeded,
\* whatever became of the server.
KeyDeleteIssued(at) == at \notin {"deadline", "keyGet"}

\* The requests of the server and key deletion, common to Remove and
\* cleanupServer.
DeleteServerAndKey(n, at) ==
    /\ budget' = Count(n, at # "none")
    /\ servers' = IF ServerDeleted(at) THEN servers \ {d[n].ServerID} ELSE servers
    /\ firewalls' = IF ServerDeleted(at) THEN Detached(d[n].ServerID) ELSE firewalls
    /\ log' = [log EXCEPT ![n].srvDeletes = @ + (IF ServerDeleteIssued(at) THEN 1 ELSE 0),
                          ![n].keyDeletes = @ + (IF KeyDeleteIssued(at) THEN 1 ELSE 0)]

\* Remove: the server deletion, then the choice of running the orphan check.
DeleteServer(n) ==
    /\ pc[n] = "srvDelete"
    /\ UNCHANGED <<expired, calc>>
    /\ \E at \in DeletionFaults(n) :
        /\ DeleteServerAndKey(n, at)
        /\ loc' = [loc EXCEPT ![n].err = IF ServerDeleted(at) THEN NoErr
                                         ELSE Err("server_delete_failed")]
        /\ pc' = [pc EXCEPT ![n] = IF RunsOrphanCheck(n) THEN EnterReap(n) ELSE "removed"]
    /\ UNCHANGED <<nextFirewallID, d>>

\* cleanupServer after a failed setupFirewall; Create then returns the error.
CleanupServer(n) ==
    /\ pc[n] = "cleanup"
    /\ UNCHANGED <<expired, calc>>
    /\ \E at \in DeletionFaults(n) :
        /\ DeleteServerAndKey(n, at)
        /\ pc' = [pc EXCEPT ![n] = "failed"]
    /\ UNCHANGED <<nextFirewallID, d, loc>>

\* ---------------------------------------------------------------- deadline

\* The deadline of node n's running Create or Remove passes: from now on its
\* requests fail with the context's error and its backoff sleeps end at once.
Expire(n) ==
    /\ pc[n] \notin {"new", "created", "failed", "removed"}
    /\ ~expired[n]
    /\ expired' = [expired EXCEPT ![n] = TRUE]
    /\ UNCHANGED calc
    /\ log' = [log EXCEPT ![n].expiredIn =
                  IF pc[n] \in {"addRead", "addSet", "addVerify"} THEN "add"
                  ELSE IF pc[n] \in {"rmRead", "rmSet", "rmVerify"} THEN "remove"
                  ELSE "other"]
    /\ UNCHANGED <<firewalls, nextFirewallID, servers, budget, d, pc, loc>>

\* ---------------------------------------------------------- specification

Next ==
    \E n \in 1..MaxNodes :
        \/ CreateServer(n)
        \/ Find(n)
        \/ CreateFw(n)
        \/ Find2(n)
        \/ Attach(n)
        \/ RegFind(n)
        \/ AddRead(n)
        \/ AddSetRules(n)
        \/ AddVerify(n)
        \/ Remove(n)
        \/ RemoveRead(n)
        \/ RemoveSetRules(n)
        \/ RemoveVerify(n)
        \/ DeleteServer(n)
        \/ ReapRead(n)
        \/ ReapDelete(n)
        \/ CleanupServer(n)

Spec == Init /\ [][Next]_vars

\* Nodes joining concurrently: every node runs Create, none is removed and
\* no API request fails.
NextJoin ==
    \E n \in 1..MaxJoiners :
        \/ CreateServer(n)
        \/ Find(n)
        \/ CreateFw(n)
        \/ Find2(n)
        \/ Attach(n)
        \/ RegFind(n)
        \/ AddRead(n)
        \/ AddSetRules(n)
        \/ AddVerify(n)
        \/ CleanupServer(n)

SpecJoin == InitJoin /\ [][NextJoin]_vars

\* Node n's process is between two operations: no Create or Remove of it runs.
AtRest(n) == pc[n] \in {"new", "created", "failed", "removed"}

\* Node n may take a step of a sequential run: no other node's operation is
\* under way.
Alone(n) == \A m \in (1..MaxNodes) \ {n} : AtRest(m)

\* Sequential runs: the operations of the nodes do not overlap.
NextSeq ==
    \E n \in 1..MaxNodes :
        \/ Alone(n) /\ CreateServer(n)
        \/ Alone(n) /\ Find(n)
        \/ Alone(n) /\ CreateFw(n)
        \/ Alone(n) /\ Find2(n)
        \/ Alone(n) /\ Attach(n)
        \/ Alone(n) /\ RegFind(n)
        \/ Alone(n) /\ AddRead(n)
        \/ Alone(n) /\ AddSetRules(n)
        \/ Alone(n) /\ AddVerify(n)
        \/ Alone(n) /\ Remove(n)
        \/ Alone(n) /\ RemoveRead(n)
        \/ Alone(n) /\ RemoveSetRules(n)
        \/ Alone(n) /\ RemoveVerify(n)
        \/ Alone(n) /\ DeleteServer(n)
        \/ Alone(n) /\ ReapRead(n)
        \/ Alone(n) /\ ReapDelete(n)
        \/ Alone(n) /\ CleanupServer(n)

SpecSeq == Init /\ [][NextSeq]_vars

\* ------------------------------------------------- calls of pure functions

\* No node and nothing in the cloud: the state around a call of a pure function.
NoNodes ==
    /\ firewalls = << >>
    /\ nextFirewallID = 1
    /\ servers = {}
    /\ budget = 0
    /\ d = << >>
    /\ pc = << >>
    /\ loc = << >>
    /\ log = << >>
    /\ expired = << >>

cloud == <<firewalls, nextFirewallID, servers, budget, d, pc, loc, log, expired>>

\* The node addresses of the calls, as /32 ranges.
Addresses == { ipToIPNet(ServerIPv4(i)) : i \in 1..MaxAddresses }

\* Source lists: the sequences of addresses up to MaxSources, with repetitions.
AddressLists == UNION { [1..k -> Addresses] : k \in 0..MaxSources }

\* Rule lists the functions are called with: lists as the driver writes them
\* (the other rules followed by the internal rules of one source list), and
\* lists it did not write: internal rules in front, a single internal rule,
\* and internal rules with different source lists around the other rules.
RuleLists ==
    { pub \o rke2InternalRules(src) : pub \in {<<>>, rke2PublicRules}, src \in AddressLists }
    \cup { rke2InternalRules(src) \o rke2PublicRules : src \in AddressLists }
    \cup { rke2PublicRules \o SubSeq(rke2InternalRules(src), 1, 1) :
              src \in AddressLists \ {<<>>} }
    \cup { SubSeq(rke2InternalRules(src), 1, 1) \o rke2PublicRules
              \o SubSeq(rke2InternalRules(other), 2, 2) :
              src \in AddressLists \ {<<>>}, other \in AddressLists \ {<<>>} }

\* A rebuild is about to be called on rule list R for address a, or the
\* internal rules are about to be built for the address list S and the
\* addresses collected from them.
InitRules ==
    /\ NoNodes
    /\ \/ \E R \in RuleLists, a \in Addresses :
             calc = [fn |-> "rebuild", R |-> R, a |-> a, op |-> "none", n |-> 0,
                     once |-> R, out |-> R]
       \/ \E S \in AddressLists :
             calc = [fn |-> "collect", S |-> S, step |-> "input", rules |-> <<>>,
                     ips |-> <<>>]

\* One more call of a rebuild on the result so far; `once` keeps the result
\* of the first call.
Rebuilt(op, result) ==
    /\ calc.op \in {"none", op}
    /\ calc.n < MaxCalls
    /\ calc' = [calc EXCEPT !.op = op, !.n = @ + 1, !.out = result,
                            !.once = IF calc.n = 0 THEN result ELSE @]
    /\ UNCHANGED cloud

AddRebuild ==
    /\ calc.fn = "rebuild"
    /\ Rebuilt("add", rebuildRulesWithNodeIP(calc.out, calc.a))

RemoveRebuild ==
    /\ calc.fn = "rebuild"
    /\ Rebuilt("remove", rebuildRulesWithoutNodeIP(calc.out, calc.a))

\* rke2InternalRules for the address list.
BuildInternalRules ==
    /\ calc.fn = "collect"
    /\ calc.step = "input"
    /\ calc' = [calc EXCEPT !.step = "built", !.rules = rke2InternalRules(calc.S)]
    /\ UNCHANGED cloud

\* collectNodeIPs on the rules built.
CollectNodeIPs ==
    /\ calc.fn = "collect"
    /\ calc.step = "built"
    /\ calc' = [calc EXCEPT !.step = "collected", !.ips = collectNodeIPs(calc.rules)]
    /\ UNCHANGED cloud

NextRules ==
    \/ AddRebuild
    \/ RemoveRebuild
    \/ BuildInternalRules
    \/ CollectNodeIPs

SpecRules == InitRules /\ [][NextRules]_vars

\* ------------------------------------------------------------- cluster IDs

\* A string is the sequence of its characters.  [a-zA-Z0-9\-_.], the
\* characters hetznerLabelValueRe does not match:
AllowedChars ==
    {"a", "b", "c", "d", "e", "f", "g", "h", "i", "j", "k", "l", "m",
     "n", "o", "p", "q", "r", "s", "t", "u", "v", "w", "x", "y", "z",
     "A", "B", "C", "D", "E", "F", "G", "H", "I", "J", "K", "L", "M",
     "N", "O", "P", "Q", "R", "S", "T", "U", "V", "W", "X", "Y", "Z",
     "0", "1", "2", "3", "4", "5", "6", "7", "8", "9", "-", "_", "."}

\* hetznerLabelValueRe.ReplaceAllString(id, "-")
ReplaceDisallowed(s) == [i \in 1..Len(s) |-> IF s[i] \in AllowedChars THEN s[i] ELSE "-"]

RECURSIVE CollapseHyphens(_)
\* consecutiveHyphensRe.ReplaceAllString(s, "-")
CollapseHyphens(s) ==
    IF Len(s) < 2 THEN s
    ELSE IF s[1] = "-" /\ s[2] = "-" THEN CollapseHyphens(Tail(s))
    ELSE <<s[1]>> \o CollapseHyphens(Tail(s))

RECURSIVE TrimLeft(_)
TrimLeft(s) == IF s # <<>> /\ s[1] = "-" THEN TrimLeft(Tail(s)) ELSE s

\* Faulty variant: nothing is trimmed at the end.
TrimRightNot(s) == s

RECURSIVE TrimRight(_)
\* strings.TrimRight(s, "-")
TrimRight(s) ==
    IF s # <<>> /\ s[Len(s)] = "-" THEN TrimRight(SubSeq(s, 1, Len(s) - 1)) ELSE s

\* strings.Trim(s, "-")
Trim(s) == TrimRight(TrimLeft(s))

sanitizeClusterID(id) ==
    LET s == Trim(CollapseHyphens(ReplaceDisallowed(id))) IN
    IF Len(s) > hetznerLabelMaxLen
    THEN TrimRight(SubSeq(s, 1, hetznerLabelMaxLen))
    ELSE s

\* Faulty variant: an identifier that needs sanitizing is accepted as it is.
validateClusterIDLenient(id) ==
    IF id = <<>> THEN NoErr
    ELSE IF sanitizeClusterID(id) = <<>> THEN [code |-> "only_invalid_characters", id |-> id]
    ELSE NoErr

validateClusterID(id) ==
    IF id = <<>> THEN NoErr
    ELSE LET sanitized == sanitizeClusterID(id) IN
         IF sanitized = <<>> THEN [code |-> "only_invalid_characters", id |-> id]
         ELSE IF sanitized # id
              THEN [code |-> "not_allowed", id |-> id, sanitized |-> sanitized]
         ELSE NoErr

\* The characters of the free text of an identifier: a letter, the hyphen, a
\* character that is not allowed, and an allowed one that is no letter.
TextChars == {"a", "-", "!", "_"}

Texts(max) == UNION { [1..k -> TextChars] : k \in 0..max }

\* n letters.
Letters(n) == [i \in 1..n |-> "x"]

\* The lengths of the run of letters: none, and those that bring the text
\* after it to the limit of the label's length.
RunLengths == {0} \cup ((hetznerLabelMaxLen - MaxSuffix)..(hetznerLabelMaxLen - 1))

\* The identifiers the functions are called with.
ClusterIDs ==
    { pre \o Letters(n) \o post :
        pre \in Texts(MaxPrefix), n \in RunLengths, post \in Texts(MaxSuffix) }

InitIDs ==
    /\ NoNodes
    /\ \E id \in ClusterIDs :
          calc = [fn |-> "clusterID", id |-> id, op |-> "none", n |-> 0,
                  once |-> id, out |-> id, err |-> NoErr]

\* One more call of sanitizeClusterID on the result so far.
Sanitize ==
    /\ calc.fn = "clusterID"
    /\ calc.op \in {"none", "sanitize"}
    /\ calc.n < MaxCalls
    /\ LET result == sanitizeClusterID(calc.out) IN
       calc' = [calc EXCEPT !.op = "sanitize", !.n = @ + 1, !.out = result,
                            !.once = IF calc.n = 0 THEN result ELSE @]
    /\ UNCHANGED cloud

\* validateClusterID on the identifier.
Validate ==
    /\ calc.fn = "clusterID"
    /\ calc.op = "none"
    /\ calc' = [calc EXCEPT !.op = "validate", !.n = 1, !.err = validateClusterID(calc.id)]
    /\ UNCHANGED cloud

NextIDs ==
    \/ Sanitize
    \/ Validate

SpecIDs == InitIDs /\ [][NextIDs]_vars

\* ---------------------------------------------------------- PreCreateCheck

\* A machine name: the text before the suffix Rancher appends
\* (-<pool>-<hash>-<hash>), and whether the name ends with such a suffix.
MachineNames == [prefix : {<<>>, <<"x">>, <<"!">>}, suffix : BOOLEAN]

\* clusterIDFromMachineName: the sanitized text before the suffix; nothing
\* when the suffix is missing or starts the name.
clusterIDFromMachineName(name) ==
    IF ~name.suffix \/ name.prefix = <<>> THEN <<>>
    ELSE sanitizeClusterID(name.prefix)

\* The flags PreCreateCheck looks at.
CheckedConfigs ==
    [APIToken : {"", "token"},
     DisablePublicIPv4 : BOOLEAN, DisablePublicIPv6 : BOOLEAN, UsePrivateNetwork : BOOLEAN,
     CreateFirewall : BOOLEAN, AutoCreateFirewallRules : BOOLEAN,
     Firewalls : {<<>>, <<"existing-fw">>},
     ClusterID : {<<>>, <<"x">>, <<"a", "!", "b">>, <<"!", "!">>},
     MachineName : MachineNames,
     ExistingSSHKey : {"", "key"}]

\* The cluster ID PreCreateCheck validates: the configured one, or for a
\* node that manages the firewall the one derived from the machine name.
EffectiveClusterID(c) ==
    IF c.CreateFirewall /\ c.ClusterID = <<>> THEN clusterIDFromMachineName(c.MachineName)
    ELSE c.ClusterID

\* Faulty variant: the cluster ID is left to be validated later.
ConfigurationErrorWithoutID(c) ==
    IF c.APIToken = "" THEN Err("token_required")
    ELSE IF c.DisablePublicIPv4 /\ c.DisablePublicIPv6 /\ ~c.UsePrivateNetwork
         THEN Err("no_network_connectivity")
    ELSE IF c.CreateFirewall /\ c.AutoCreateFirewallRules /\ c.DisablePublicIPv4
         THEN Err("auto_rules_without_public_ipv4")
    ELSE IF c.CreateFirewall /\ Len(c.Firewalls) > 0 THEN Err("both_firewall_modes")
    ELSE IF c.CreateFirewall /\ EffectiveClusterID(c) = <<>> THEN Err("cluster_id_required")
    ELSE NoErr

\* The part of PreCreateCheck before its first request: the error of the
\* configuration, or none.
ConfigurationError(c) ==
    IF c.APIToken = "" THEN Err("token_required")
    ELSE IF c.DisablePublicIPv4 /\ c.DisablePublicIPv6 /\ ~c.UsePrivateNetwork
         THEN Err("no_network_connectivity")
    ELSE IF c.CreateFirewall /\ c.AutoCreateFirewallRules /\ c.DisablePublicIPv4
         THEN Err("auto_rules_without_public_ipv4")
    ELSE IF c.CreateFirewall /\ Len(c.Firewalls) > 0 THEN Err("both_firewall_modes")
    ELSE IF c.CreateFirewall /\ EffectiveClusterID(c) = <<>> THEN Err("cluster_id_required")
    ELSE validateClusterID(EffectiveClusterID(c))

InitCheck ==
    /\ NoNodes
    /\ \E c \in CheckedConfigs :
          calc = [fn |-> "preCreateCheck", cfg |-> c, step |-> "config", requests |-> 0,
                  ClusterID |-> c.ClusterID, err |-> NoErr]

\* PreCreateCheck returns err, or goes on to its next request.
CheckGoesOn(err, next) ==
    /\ calc' = [calc EXCEPT !.requests = IF calc.step = "config" THEN @ ELSE @ + 1,
                            !.err = err,
                            !.step = IF err # NoErr THEN "returned" ELSE next]
    /\ UNCHANGED cloud

\* The checks that need no request.
CheckConfiguration ==
    /\ calc.fn = "preCreateCheck"
    /\ calc.step = "config"
    /\ calc' = [calc EXCEPT !.err = ConfigurationError(calc.cfg),
                            !.ClusterID = IF ConfigurationError(calc.cfg) = NoErr
                                          THEN EffectiveClusterID(calc.cfg) ELSE @,
                            !.step = IF ConfigurationError(calc.cfg) # NoErr THEN "returned"
                                     ELSE "token"]
    /\ UNCHANGED cloud

\* ServerType.AllWithOpts, which validates the token.
ValidateToken ==
    /\ calc.fn = "preCreateCheck"
    /\ calc.step = "token"
    /\ \E err \in {NoErr, Err("token_invalid")} : CheckGoesOn(err, "serverType")

\* ServerType.GetByName: an error, no such type, or the type.
ValidateServerType ==
    /\ calc.fn = "preCreateCheck"
    /\ calc.step = "serverType"
    /\ \E err \in {NoErr, Err("invalid_server_type"), Err("server_type_not_found")} :
          CheckGoesOn(err, "location")

ValidateLocation ==
    /\ calc.fn = "preCreateCheck"
    /\ calc.step = "location"
    /\ \E err \in {NoErr, Err("invalid_location"), Err("location_not_found")} :
          CheckGoesOn(err, "image")

ValidateImage ==
    /\ calc.fn = "preCreateCheck"
    /\ calc.step = "image"
    /\ \E err \in {NoErr, Err("invalid_image"), Err("image_not_found")} :
          CheckGoesOn(err, IF calc.cfg.ExistingSSHKey # "" THEN "sshKey" ELSE "returned")

ValidateSSHKey ==
    /\ calc.fn = "preCreateCheck"
    /\ calc.step = "sshKey"
    /\ \E err \in {NoErr, Err("invalid_existing_ssh_key")} : CheckGoesOn(err, "returned")

NextCheck ==
    \/ CheckConfiguration
    \/ ValidateToken
    \/ ValidateServerType
    \/ ValidateLocation
    \/ ValidateImage
    \/ ValidateSSHKey

SpecCheck == InitCheck /\ [][NextCheck]_vars

\* ------------------------------------------------------ isNonRetriableError

\* The error codes of the cloud API.
ErrorCodes ==
    {"unauthorized", "forbidden", "token_readonly", "invalid_input", "not_found",
     "conflict", "rate_limit_exceeded", "server_error", "service_error", "unknown_error",
     "json_error", "locked", "protected", "resource_limit_exceeded", "resource_unavailable",
     "unavailable", "unsupported_error", "timeout", "uniqueness_error", "resource_in_use",
     "firewall_already_applied", "maintenance", "deprecated_api_endpoint"}

\* Errors that are no API errors; the last one only has the text of a code.
OtherErrors ==
    {"context canceled", "context deadline exceeded", "connection reset by peer",
     "unexpected EOF", "not_found"}

RECURSIVE Wrapped(_, _)
\* The error e wrapped n times.
Wrapped(e, n) == IF n = 0 THEN e ELSE [kind |-> "wrapped", inner |-> Wrapped(e, n - 1)]

\* The errors isNonRetriableError is called with.
Errors ==
    { Wrapped([kind |-> k, code |-> c], n) :
        k \in {"api"}, c \in ErrorCodes, n \in 0..MaxWraps }
    \cup { Wrapped([kind |-> k, code |-> c], n) :
        k \in {"other"}, c \in OtherErrors, n \in 0..MaxWraps }

RECURSIVE APIErrorCode(_)
\* errors.As in hcloud.IsError: the code of the API error in the chain of
\* e, or none.
APIErrorCode(e) ==
    IF e.kind = "api" THEN e.code
    ELSE IF e.kind = "wrapped" THEN APIErrorCode(e.inner)
    ELSE Nil

InitErrors ==
    /\ NoNodes
    /\ \E e \in Errors :
          calc = [fn |-> "isNonRetriableError", err |-> e, called |-> FALSE, result |-> FALSE]

\* isNonRetriableError on the error.
Classify ==
    /\ calc.fn = "isNonRetriableError"
    /\ ~calc.called
    /\ calc' = [calc EXCEPT !.called = TRUE,
                            !.result = isNonRetriableError(APIErrorCode(calc.err))]
    /\ UNCHANGED cloud

NextErrors == Classify

SpecErrors == InitErrors /\ [][NextErrors]_vars

\* --------------------------------------------------------------- retryDelay

RECURSIVE Backoff(_)
\* float64(retryBaseDelay) * math.Pow(retryBackoffMultiplier, float64(attempt)).
\* The float does not overflow (it ends at +Inf), and the product is only
\* compared with retryMaxDelay: once beyond it, it is not multiplied further.
Backoff(attempt) ==
    IF attempt = 0 THEN retryBaseDelay
    ELSE IF Backoff(attempt - 1) > retryMaxDelay THEN Backoff(attempt - 1)
    ELSE Backoff(attempt - 1) * retryBackoffMultiplier

\* Faulty variant: the delay keeps growing beyond the maximum.
CappedNot(delay) == delay

\* if delay > float64(retryMaxDelay) { delay = float64(retryMaxDelay) }
Capped(delay) == IF delay > retryMaxDelay THEN retryMaxDelay ELSE delay

\* The values of rand.Float64() followed: k / MaxJitterSteps; the jitter
\* 0.75 + k/MaxJitterSteps * 0.5 is the fraction (3*steps + 2*k) / (4*steps).
\* The last step stands for the random values whose sum with 0.75 is rounded
\* to 1.25.
JitterChoices == 0..MaxJitterSteps

\* retryDelay with the random value k / MaxJitterSteps; time.Duration(...)
\* truncates.
retryDelay(attempt, k) ==
    (Capped(Backoff(attempt)) * (3 * MaxJitterSteps + 2 * k)) \div (4 * MaxJitterSteps)

\* retryDelay is about to be called: on its own with any attempt number, or
\* in the loop of add or remove before the attempt with this number.
InitDelay ==
    /\ NoNodes
    /\ \/ \E n \in 0..MaxAttempt :
             calc = [fn |-> "retryDelay", caller |-> "none", attempt |-> n,
                     called |-> FALSE, k |-> 0, delay |-> 0, slept |-> 0]
       \/ \E c \in {"add", "remove"}, n \in 0..(maxFirewallRetries - 1) :
             calc = [fn |-> "retryDelay", caller |-> c, attempt |-> n,
                     called |-> FALSE, k |-> 0, delay |-> 0, slept |-> 0]

\* A call of retryDelay on its own.
RetryDelay ==
    /\ calc.fn = "retryDelay"
    /\ calc.caller = "none"
    /\ ~calc.called
    /\ \E k \in JitterChoices :
          calc' = [calc EXCEPT !.called = TRUE, !.k = k, !.delay = retryDelay(calc.attempt, k)]
    /\ UNCHANGED cloud

\* The head of the loop of add and remove: no sleep before the first
\* attempt, and before a retry a sleep of retryDelay(attempt).
BackoffSleep ==
    /\ calc.fn = "retryDelay"
    /\ calc.caller \in {"add", "remove"}
    /\ ~calc.called
    /\ IF calc.attempt > 0
       THEN \E k \in JitterChoices :
               calc' = [calc EXCEPT !.called = TRUE, !.k = k,
                                    !.delay = retryDelay(calc.attempt, k),
                                    !.slept = retryDelay(calc.attempt, k)]
       ELSE calc' = [calc EXCEPT !.called = TRUE]
    /\ UNCHANGED cloud

NextDelay ==
    \/ RetryDelay
    \/ BackoffSleep

SpecDelay == InitDelay /\ [][NextDelay]_vars

\* One node through Create and Remove on the existing firewall, with enough
\* API errors to use up the attempts of a call and a deadline that may pass.
NextRetry ==
    \E n \in RetryNodes :
        \/ CreateServer(n)
        \/ Find(n)
        \/ Attach(n)
        \/ RegFind(n)
        \/ AddRead(n)
        \/ AddSetRules(n)
        \/ AddVerify(n)
        \/ Remove(n)
        \/ RemoveRead(n)
        \/ RemoveSetRules(n)
        \/ RemoveVerify(n)
        \/ DeleteServer(n)
        \/ ReapRead(n)
        \/ CleanupServer(n)
        \/ Expire(n)

SpecRetry == InitRetry /\ [][NextRetry]_vars

\* ------------------------------------------------------------- properties

AddInProgress(n) == pc[n] \in {"addRead", "addSet", "addVerify"}

RemoveInProgress(n) == pc[n] \in {"rmRead", "rmSet", "rmVerify"}

\* No call of addNodeToFirewall or removeNodeFromFirewall is in progress.
AllReturned == \A n \in Nodes : ~AddInProgress(n) /\ ~RemoveInProgress(n)

\* Node n's address is a source of an internal rule of the firewall it recorded.
Registered(n) ==
    /\ Exists(d[n].FirewallID)
    /\ firewallHasNodeIP(firewalls[d[n].FirewallID].Rules, NodeIP(n))

\* The source addresses of a rule, as a set.
Sources(rule) == { rule.SourceIPs[i] : i \in 1..Len(rule.SourceIPs) }

\* The firewalls that carry the cluster label cid.
LabelledFor(cid) ==
    { id \in DOMAIN firewalls :
        /\ firewalls[id].Labels.managedBy = "rancher-machine"
        /\ firewalls[id].Labels.cluster = cid }

\* C1: once every add call has returned, the internal rules of the firewall
\* contain the address of every node whose add returned success and whose
\* address was not removed afterwards.
C1_AddedAddressesPresent ==
    AllReturned =>
        \A n \in Nodes : (log[n].add = "ok" /\ log[n].remove = Nil) => Registered(n)

\* C2: once every call has returned, an address whose removal completed (its
\* own verification read showed it absent) is in no internal rule of the
\* firewall: no concurrent writer brought it back.
C2_RemovedAddressesAbsent ==
    AllReturned =>
        \A n \in Nodes : log[n].remove = "verified" => ~Registered(n)

\* C3: in every reachable state all internal rules of a firewall carry the
\* same set of source addresses.
C3_InternalRulesAgree ==
    \A id \in DOMAIN firewalls :
        \A i, j \in 1..Len(firewalls[id].Rules) :
            (isInternalRule(firewalls[id].Rules[i]) /\ isInternalRule(firewalls[id].Rules[j]))
                => Sources(firewalls[id].Rules[i]) = Sources(firewalls[id].Rules[j])

\* C3 happens: adds have rewritten a firewall whose internal rules now carry
\* two addresses.
C3_TwoAddressesWritten ==
    \E id \in DOMAIN firewalls :
        /\ Len(collectNodeIPs(firewalls[id].Rules)) >= 2
        /\ Len(SelectRules(firewalls[id].Rules, TRUE)) >= 2
        /\ \E n \in Nodes : log[n].submits > 0 /\ d[n].FirewallID = id

\* C4 as stated: add returns success only after a read showed the address,
\* and a run of add in which a verification read showed the address absent
\* has made at least two rule submissions when it returns.
C4_ResubmitsAfterFailedVerify ==
    \A n \in Nodes :
        /\ log[n].add = "ok" => log[n].lastReadHas
        /\ (log[n].verifyFailed /\ log[n].add # Nil) => log[n].submits >= 2

\* C4, amended: add returns success only after a read showed the address; a
\* submission is only made after an initial read that showed it absent; and a
\* run in which a verification read showed the address absent and which ends
\* in success on a verification read has made at least two submissions (it
\* may also end in success on the re-read itself, or in an error when the
\* re-read fails, the firewall is gone or the attempts are used up).
C4_SuccessOnlyAfterRead ==
    \A n \in Nodes :
        /\ log[n].add = "ok" => log[n].lastReadHas
        /\ pc[n] = "addSet" => (log[n].lastRead = "initial" /\ ~log[n].lastReadHas)
        /\ (log[n].verifyFailed /\ log[n].add = "ok" /\ log[n].lastRead = "verify")
              => log[n].submits >= 2

\* C4 happens: a verification read showed the address absent, add submitted
\* again and returned success.
C4_RetriedToSuccess ==
    \E n \in Nodes :
        log[n].verifyFailed /\ log[n].add = "ok" /\ log[n].submits >= 2

\* C5: at most one firewall carries a given cluster label.
C5_OneFirewallPerCluster ==
    Cardinality(LabelledFor(ClusterID)) <= 1

\* C6: when two nodes both looked up nothing and both requested the create,
\* the one whose create was rejected looks up once more and returns the
\* other's firewall with created = false and no error; exactly one of the two
\* returns created = true and both record the same firewall id.
C6_RejectedCreatorAdopts ==
    \A a, b \in Nodes :
        ( /\ a # b
          /\ log[a].creates = 1 /\ log[a].rejected
          /\ log[b].creates = 1
          /\ \A c \in Nodes \ {a, b} : log[c].creates = 0
          /\ pc[a] # "find2" )
        => /\ ~log[b].rejected
           /\ log[a].finds = 2
           /\ log[a].findErr = NoErr
           /\ pc[a] \notin {"cleanup", "failed"}
           /\ ~loc[a].created
           /\ loc[b].created
           /\ d[a].FirewallID # 0
           /\ d[a].FirewallID = d[b].FirewallID

\* C6 happens: a node whose create was rejected has finished Create on the
\* firewall the other node created.
C6_AdoptedAfterRejection ==
    \E a, b \in Nodes :
        /\ a # b
        /\ log[a].rejected /\ log[a].creates = 1 /\ log[b].creates = 1
        /\ \A c \in Nodes \ {a, b} : log[c].creates = 0
        /\ pc[a] = "created" /\ pc[b] = "created"
        /\ loc[b].created /\ d[a].FirewallID = d[b].FirewallID

\* C7: a lookup whose label query matches two or more firewalls returns the
\* error that names the selector and the count and records none of the
\* matches; the first lookup of findOrCreateSharedFirewall then ends Create
\* with that error, no create request and no firewall id recorded.
C7_AmbiguousLookupIsError ==
    [][ \A n \in Nodes :
          ( /\ pc[n] \in {"find", "find2", "regFind"}
            /\ pc'[n] # pc[n]
            /\ budget' = budget
            /\ Cardinality(Matching(n)) >= 2 )
          => /\ log'[n].findErr = [code |-> "multiple", selector |-> Selector(n),
                                   count |-> Cardinality(Matching(n))]
             /\ d'[n].FirewallID = d[n].FirewallID
             /\ log'[n].creates = log[n].creates
             /\ firewalls' = firewalls
             /\ pc[n] = "find" => ( /\ pc'[n] = "cleanup"
                                    /\ loc'[n].err = log'[n].findErr
                                    /\ d'[n].FirewallID = 0 )
      ]_vars

\* C7 happens: a first lookup met two firewalls and Create ended with the
\* error, no create requested, no firewall id recorded.
C7_AmbiguousLookupSeen ==
    \E n \in Nodes :
        /\ log[n].findErr.code = "multiple"
        /\ log[n].finds = 1
        /\ d[n].CreateFirewall
        /\ pc[n] \in {"cleanup", "failed"}
        /\ log[n].creates = 0
        /\ d[n].FirewallID = 0

\* C8: no step removes a firewall that has an attached server; a delete the
\* orphan check issues for a firewall that a server was attached to since its
\* read is answered resource-in-use, which the check takes as the normal
\* outcome "in use" and which leaves the firewall in place.
C8_AttachedFirewallSurvives ==
    [][ /\ \A id \in DOMAIN firewalls :
              firewalls[id].AppliedTo # {} => id \in DOMAIN firewalls'
        /\ \A n \in Nodes :
              ( /\ pc[n] = "reapDelete"
                /\ pc'[n] # "reapDelete"
                /\ budget' = budget
                /\ Exists(loc[n].fw.ID)
                /\ firewalls[loc[n].fw.ID].AppliedTo # {} )
              => /\ log'[n].reap = "in_use"
                 /\ firewalls' = firewalls
                 /\ pc'[n] = AfterReap(n)
      ]_vars

\* C8 happens: an orphan check's delete was rejected because a server had
\* been attached after its read, and the firewall is still there.
C8_DeleteRejectedInUse ==
    \E n \in Nodes :
        /\ log[n].reap = "in_use"
        /\ log[n].deletes = 1
        /\ Exists(d[n].FirewallID)
        /\ firewalls[d[n].FirewallID].AppliedTo # {}

\* C9: the orphan check is not entered without a firewall id; its read is
\* followed by a delete request exactly when it returned the firewall with an
\* empty AppliedTo; and no delete request is issued anywhere else.
C9_DeleteOnlyWhenReadOrphaned ==
    [][ \A n \in Nodes :
          /\ log'[n].deletes # log[n].deletes
                => /\ pc[n] = "reapDelete"
                   /\ d[n].FirewallID # 0
                   /\ loc[n].fw.ID = d[n].FirewallID
                   /\ loc[n].fw.AppliedTo = {}
                   /\ log'[n].deletes = log[n].deletes + 1
          /\ (pc[n] = "reapRead" /\ pc'[n] # "reapRead")
                => /\ d[n].FirewallID # 0
                   /\ (pc'[n] = "reapDelete")
                        <=> ( /\ budget' = budget
                              /\ Exists(d[n].FirewallID)
                              /\ firewalls[d[n].FirewallID].AppliedTo = {} )
          /\ (pc[n] = "reapDelete" /\ pc'[n] # "reapDelete")
                => log'[n].deletes = log[n].deletes + 1
      ]_vars

\* C9 happens: one orphan check read an attached server and kept the
\* firewall, another read none and deleted it.
C9_KeptThenDeleted ==
    \E m, n \in Nodes :
        /\ log[m].reap = "kept" /\ log[m].deletes = 0
        /\ log[n].reap = "deleted" /\ log[n].deletes = 1

\* C10: a node that does not manage the firewall never runs the orphan check
\* and never issues a firewall delete.
C10_MembersNeverDelete ==
    \A n \in Nodes :
        ~d[n].CreateFirewall =>
            /\ log[n].deletes = 0
            /\ log[n].reap = Nil
            /\ pc[n] \notin {"reapRead", "reapDelete"}

\* C10 happens: a registered member was removed while the firewall it had
\* registered with existed with no attached server.
C10_MemberRemovedFromOrphan ==
    \E n \in Nodes :
        /\ ~d[n].CreateFirewall
        /\ pc[n] = "removed"
        /\ log[n].add = "ok"
        /\ Exists(d[n].FirewallID)
        /\ firewalls[d[n].FirewallID].AppliedTo = {}

\* setupFirewall returns success to node n in this step.
SetupSucceeds(n) ==
    /\ d[n].CreateFirewall
    /\ pc[n] \in {"attach", "addRead", "addVerify"}
    /\ pc'[n] = "created"

\* C11: when setupFirewall returns success to a node that manages the
\* firewall and has a public IPv4, the node's /32 address is a source of the
\* internal rules of the shared firewall, with or without automatic rules and
\* whether the node found the firewall or created it.
C11_SetupLeavesAddressRegistered ==
    [][ \A n \in Nodes :
          (SetupSucceeds(n) /\ d[n].PublicIPv4 # "")
              => /\ d'[n].FirewallID \in DOMAIN firewalls'
                 /\ firewallHasNodeIP(firewalls'[d'[n].FirewallID].Rules, NodeIP(n))
      ]_vars

\* C12: without automatic rules the firewall is created empty, and a rule
\* submission of add built from a read that showed no internal rule leaves
\* the firewall without internal rules.
C12_AddKeepsEmptyFirewallEmpty ==
    [][ \A n \in Nodes :
          /\ (pc[n] = "createFw" /\ pc'[n] = "attach" /\ ~d[n].AutoCreateFirewallRules)
                => firewalls'[d'[n].FirewallID].Rules = <<>>
          /\ ( /\ pc[n] = "addSet"
               /\ pc'[n] = "addVerify"
               /\ SelectRules(loc[n].fw.Rules, TRUE) = <<>> )
                => SelectRules(firewalls'[loc[n].fw.ID].Rules, TRUE) = <<>>
      ]_vars

\* C13: once the Create of a node that does not manage the firewall (cluster
\* id set, public IPv4 enabled) has returned and a shared firewall of the
\* cluster exists, the node's /32 is a source of that firewall's internal
\* rules, whatever the order in which the nodes were created.
C13_MemberRegisteredOnceFirewallExists ==
    \A n \in Nodes :
        ( /\ ~d[n].CreateFirewall
          /\ d[n].ClusterID # ""
          /\ ~d[n].DisablePublicIPv4
          /\ pc[n] = "created"
          /\ LabelledFor(d[n].ClusterID) # {} )
        => \E id \in LabelledFor(d[n].ClusterID) :
              firewallHasNodeIP(firewalls[id].Rules, NodeIP(n))

\* C14: after the attach, setupFirewall runs add exactly when the firewall
\* was found (created = false) and the node has a public IPv4; a node that
\* created the firewall makes no rule submission, and when add is skipped for
\* that reason the node's address is in the internal rules the firewall was
\* created with.
C14_AddSkippedOnlyForRegisteredCreator ==
    [][ \A n \in Nodes :
          /\ (pc[n] = "attach" /\ pc'[n] \in {"addRead", "created"})
                => /\ (pc'[n] = "addRead") <=> (~loc[n].created /\ d[n].PublicIPv4 # "")
                   /\ (loc[n].created /\ d[n].PublicIPv4 # "")
                         => firewallHasNodeIP(firewalls'[d[n].FirewallID].Rules, NodeIP(n))
          /\ log'[n].submits # log[n].submits => ~loc[n].created
      ]_vars

\* C15: a read that starts an attempt and already shows the target condition
\* (the address present for add, absent for remove) ends the call with
\* success at once: no rule submission is made and the firewalls are left as
\* they were.
C15_ShortCircuitOnTargetCondition ==
    [][ \A n \in Nodes :
          /\ ( /\ pc[n] = "addRead" /\ pc'[n] # "addRead"
               /\ budget' = budget
               /\ Registered(n) )
                => /\ log'[n].add = "ok"
                   /\ loc'[n].err = NoErr
                   /\ pc'[n] = "created"
                   /\ log'[n].submits = log[n].submits
                   /\ firewalls' = firewalls
          /\ ( /\ pc[n] = "rmRead" /\ pc'[n] # "rmRead"
               /\ budget' = budget
               /\ Exists(d[n].FirewallID)
               /\ ~Registered(n) )
                => /\ log'[n].remove = "absent"
                   /\ pc'[n] = AfterRemoveNode(n, loc[n].phase)
                   /\ log'[n].rmSubmits = log[n].rmSubmits
                   /\ firewalls' = firewalls
      ]_vars

\* C15 happens: an add ended on a read that starts an attempt, and a remove
\* found the address already absent without submitting anything.
C15_ShortCircuitsTaken ==
    \E n, m \in Nodes :
        /\ log[n].add = "ok" /\ log[n].lastRead = "initial"
        /\ log[m].remove = "absent" /\ log[m].rmSubmits = 0

\* The API error codes that are terminal: retrying cannot help.
TerminalCodes == {"unauthorized", "forbidden", "token_readonly", "invalid_input", "not_found"}

\* C16 as stated: a call of add or remove that a terminal error of a rule
\* submission ended has made exactly one submission.
C16_TerminalErrorAfterOneSubmission ==
    \A n \in Nodes :
        /\ (log[n].add \in TerminalCodes) => log[n].submits = 1
        /\ (log[n].remove \in TerminalCodes) => log[n].rmSubmits = 1

\* C16, amended: a rule submission answered with a terminal error ends the
\* call there: add returns that error, remove stops, and the call makes no
\* further attempt or submission; the failed submission is the call's last,
\* not necessarily its only one.
C16_TerminalErrorEndsCall ==
    [][ \A n \in Nodes :
          /\ (pc[n] = "addSet" /\ pc'[n] # "addSet" /\ log'[n].answer \in TerminalCodes)
                => /\ log'[n].add = log'[n].answer
                   /\ loc'[n].err = Err(log'[n].answer)
                   /\ pc'[n] = AfterAdd(n, loc'[n].err)
                   /\ log'[n].submits = log[n].submits + 1
                   /\ firewalls' = firewalls
          /\ (pc[n] = "rmSet" /\ pc'[n] # "rmSet" /\ log'[n].answer \in TerminalCodes)
                => /\ log'[n].remove = log'[n].answer
                   /\ pc'[n] = AfterRemoveNode(n, loc[n].phase)
                   /\ log'[n].rmSubmits = log[n].rmSubmits + 1
                   /\ firewalls' = firewalls
          /\ (log[n].add # Nil /\ pc[n] # "new") => log'[n].submits = log[n].submits
          /\ (log[n].remove # Nil /\ pc[n] # "new") => log'[n].rmSubmits = log[n].rmSubmits
      ]_vars

\* C16 happens: a terminal error answered the second submission of a remove,
\* which stopped there, and Remove went on to delete the server.
C16_TerminalErrorsSeen ==
    \E n \in Nodes :
        /\ log[n].remove \in TerminalCodes
        /\ log[n].answer = log[n].remove
        /\ log[n].rmSubmits = 2
        /\ pc[n] = "srvDelete"

\* Node n takes a step in which the cloud answers its request with an
\* injected transient error: a failed read, or a conflict on a submission.
TransientErrorAt(n, positions) ==
    /\ pc[n] \in positions
    /\ pc'[n] # pc[n] \/ loc'[n] # loc[n]
    /\ budget' < budget
    /\ pc[n] \in {"addSet", "rmSet"} => log'[n].answer = "conflict"

\* C17: a transient API error at any remote call of add or remove (the read
\* that starts an attempt, the rule submission, the verification read) does
\* not abort the call: it goes on to the next attempt, until the attempt
\* bound is reached.
C17_TransientErrorIsRetried ==
    [][ \A n \in Nodes :
          /\ TransientErrorAt(n, {"addRead", "addSet", "addVerify"})
                => IF Exhausted(n) THEN log'[n].add = "exhausted"
                   ELSE /\ pc'[n] = "addRead"
                        /\ loc'[n].attempt = loc[n].attempt + 1
                        /\ log'[n].add = Nil
          /\ TransientErrorAt(n, {"rmRead", "rmSet", "rmVerify"})
                => IF Exhausted(n) THEN log'[n].remove = "exhausted"
                   ELSE /\ pc'[n] = "rmRead"
                        /\ loc'[n].attempt = loc[n].attempt + 1
                        /\ log'[n].remove = log[n].remove
      ]_vars

\* The iterations, sleeps and submissions of the calls of node n stay within
\* the attempts of the loops.
WithinAttempts(n) ==
    /\ loc[n].attempt < maxFirewallRetries
    /\ log[n].iters <= maxFirewallRetries
    /\ log[n].submits <= log[n].iters
    /\ log[n].sleeps = (IF log[n].iters = 0 THEN 0 ELSE log[n].iters - 1)
    /\ log[n].rmIters <= maxFirewallRetries
    /\ log[n].rmSubmits <= log[n].rmIters
    /\ log[n].rmSleeps = (IF log[n].rmIters = 0 THEN 0 ELSE log[n].rmIters - 1)

\* C18: every add or remove call makes at most maxFirewallRetries (10)
\* iterations and so at most 10 rule submissions, with a backoff sleep before
\* every iteration but the first; an add whose last attempt ends without the
\* address observed and without a terminal error returns the exhaustion error,
\* which names the address and the number of attempts, and only such an add
\* returns it.
C18_CallsEndWithinMaxAttempts ==
    [][\A n \in RetryNodes :
          /\ WithinAttempts(n)'
          /\ (/\ pc[n] \in {"addSet", "addVerify"}
              /\ pc'[n] \notin {"addRead", "addSet", "addVerify"}
              /\ log'[n].add \notin {"ok"} \cup TerminalCodes)
             => /\ log[n].iters = maxFirewallRetries
                /\ log'[n].add = "exhausted"
                /\ loc'[n].err = [code |-> "exhausted", address |-> ServerIPv4(n),
                                  retries |-> maxFirewallRetries]
          /\ (AddInProgress(n) /\ log'[n].add = "exhausted")
             => /\ log[n].iters = maxFirewallRetries
                /\ log[n].sleeps = maxFirewallRetries - 1
                /\ pc[n] \in {"addSet", "addVerify"}]_vars

\* Witness for C18: an add that used up every attempt: ten iterations, ten
\* submissions, nine sleeps, and the exhaustion error.
C18_AttemptsUsedUp ==
    \E n \in RetryNodes :
        /\ log[n].add = "exhausted"
        /\ log[n].iters = maxFirewallRetries
        /\ log[n].submits = maxFirewallRetries
        /\ log[n].sleeps = maxFirewallRetries - 1
        /\ loc[n].err = ExhaustionError(n)

\* The errors of add that carry the context's error: the one of the backoff
\* sleep, and the one wrapping a read that the deadline made fail.
CancellationErrors ==
    {Err("canceled"), [code |-> "get_failed", cause |-> "context_deadline_exceeded"]}

\* C19: when the deadline passes while add is in a backoff sleep or a remote
\* call, add returns a cancellation error and no submission of it takes
\* effect after the expiry; remove makes no request that takes effect after
\* the expiry and returns at its next backoff sleep.
C19_ExpiryEndsAddWithCancellation ==
    [][\A n \in RetryNodes :
          /\ (AddInProgress(n) /\ expired[n])
             => /\ firewalls' = firewalls
                /\ ~AddInProgress(n)' => loc'[n].err \in CancellationErrors
          /\ (RemoveInProgress(n) /\ expired[n])
             => /\ firewalls' = firewalls
                /\ (pc[n] = "rmRead" /\ loc[n].attempt > 0) => ~RemoveInProgress(n)']_vars

\* What deleteFirewallIfOrphaned reports when it ran to its end: it deleted
\* the firewall, or found it gone or in use.
OrphanCheckDone == {"deleted", "kept", "in_use", "gone"}

\* C20: when setupFirewall fails inside Create, Create returns the error
\* after having sent the delete requests for the node's server and SSH key;
\* when it was the attach that failed, the orphan check has run before, which
\* deletes a firewall left with no attached resource.
C20_FailedSetupRollsBack ==
    [][\A n \in DOMAIN pc :
          (pc[n] # "failed" /\ pc'[n] = "failed")
          => /\ loc'[n].err # NoErr
             /\ log'[n].srvDeletes = 1
             /\ log'[n].keyDeletes = 1
             /\ (log[n].attachFailed /\ d[n].FirewallID # 0)
                => log[n].reap \in OrphanCheckDone]_vars

\* The cleanup calls of Remove whose outcome is only logged.
BestEffortInProgress(n) ==
    /\ loc[n].phase = "remove"
    /\ pc[n] \in {"rmRead", "rmSet", "rmVerify", "reapRead", "reapDelete"}

\* C21: the result of Remove is the outcome of the server deletion alone: it
\* is an error exactly when the server was not deleted, no step of the address
\* deregistration or of the orphan check changes it, and when the server
\* deletion fails the SSH key's delete request is still sent and a node that
\* manages the firewall still runs the orphan check.
C21_RemoveResultIsServerDeletion ==
    [][\A n \in 1..MaxNodes :
          /\ (pc[n] = "srvDelete" /\ pc'[n] # "srvDelete")
             => /\ (loc'[n].err # NoErr) <=> (d[n].ServerID \in servers')
                /\ (d[n].ServerID \in servers')
                   => /\ log'[n].keyDeletes = log[n].keyDeletes + 1
                      /\ (d[n].CreateFirewall /\ d[n].FirewallID # 0)
                         => pc'[n] = "reapRead"
          /\ BestEffortInProgress(n) => loc'[n].err = loc[n].err
          /\ (pc[n] = "created" /\ pc'[n] # "created") => loc'[n].err = NoErr]_vars

\* Witness for C21: a Remove that returned no error although its address
\* deregistration or its orphan check failed.
C21_CleanupFailedRemoveSucceeded ==
    \E n \in 1..MaxNodes :
        /\ pc[n] = "removed"
        /\ loc[n].err = NoErr
        /\ d[n].ServerID \notin servers
        /\ \/ log[n].remove \in TerminalCodes
           \/ log[n].reap \in {"get_failed", "delete_failed"}

\* Node n manages the firewall and populates its rules.
OwnsWithRules(n) == d[n].CreateFirewall /\ d[n].AutoCreateFirewallRules

\* No API error has been injected so far.
NoFaultYet == budget = MaxFaults

\* Firewall id has internal rules, and the sources of each of them are
\* exactly the addresses of S, each once.
InternalRulesHold(id, S) ==
    LET internal == SelectRules(firewalls[id].Rules, TRUE) IN
    /\ Len(internal) > 0
    /\ \A i \in 1..Len(internal) :
          /\ Sources(internal[i]) = S
          /\ Len(internal[i].SourceIPs) = Cardinality(S)

\* The nodes that have joined and not left, and those that have left.
Joined == { k \in 1..MaxNodes : pc[k] = "created" }

Left == { k \in 1..MaxNodes : pc[k] = "removed" }

\* A sequential run without API errors so far, in which every node that was
\* created manages the firewall with rule population, all of them use the
\* firewall with this id, and no operation is under way.
SequentialRunOn(id) ==
    /\ NoFaultYet
    /\ id # 0
    /\ \A k \in 1..MaxNodes :
          \/ pc[k] = "new"
          \/ /\ pc[k] \in {"created", "removed"}
             /\ OwnsWithRules(k)
             /\ d[k].FirewallID = id

\* C22: in a sequential run with rule population and without API errors,
\* the first node creates the firewall (created = true) with internal rules
\* holding exactly its own address and makes no add call; every later node
\* finds the same firewall (created = false), and after its add the internal
\* rules hold exactly the addresses of the nodes that joined: of the two
\* nodes, when two have joined.
C22_SequentialJoin ==
    \A n \in 1..MaxNodes :
        (SequentialRunOn(d[n].FirewallID) /\ Left = {} /\ loc[n].created)
        => /\ Exists(d[n].FirewallID)
           /\ InternalRulesHold(d[n].FirewallID, { NodeIP(k) : k \in Joined })
           /\ log[n].creates = 1
           /\ log[n].iters = 0 /\ log[n].submits = 0 /\ log[n].add = Nil
           /\ \A m \in Joined \ {n} :
                 /\ ~loc[m].created
                 /\ log[m].creates = 0
                 /\ log[m].add = "ok" /\ log[m].submits = 1

\* Witness for C22: both nodes have joined one after the other, the second by
\* an add to the firewall the first created.
C22_BothJoinedInTurn ==
    \E n, m \in 1..MaxNodes :
        /\ n # m /\ OwnsWithRules(n) /\ OwnsWithRules(m) /\ NoFaultYet
        /\ pc[n] = "created" /\ pc[m] = "created"
        /\ loc[n].created /\ log[m].add = "ok"
        /\ d[m].FirewallID = d[n].FirewallID

\* Nodes n and m joined the same firewall (firewall ids are never reused).
JoinedTogether(n, m) ==
    /\ n # m /\ OwnsWithRules(n) /\ OwnsWithRules(m)
    /\ d[n].FirewallID # 0 /\ d[n].FirewallID = d[m].FirewallID

\* C23: in a sequential run without API errors in which nodes that manage
\* the firewall have joined it, Remove of a node that is not the last leaves
\* internal rules holding exactly the addresses of the nodes that remain (of
\* the other node, when two had joined) and keeps the firewall, which is
\* still applied to their servers; Remove of the last node, whose orphan
\* check runs after its server deletion, reads an empty AppliedTo and deletes
\* the firewall.
C23_SequentialRemove ==
    \A n \in 1..MaxNodes :
        (SequentialRunOn(d[n].FirewallID) /\ n \in Left)
        => /\ log[n].remove = "verified" /\ log[n].rmSubmits = 1
           /\ d[n].ServerID \notin servers
           /\ Joined # {}
              => /\ log[n].reap = "kept"
                 /\ Exists(d[n].FirewallID)
                 /\ InternalRulesHold(d[n].FirewallID, { NodeIP(k) : k \in Joined })
                 /\ firewalls[d[n].FirewallID].AppliedTo = { d[k].ServerID : k \in Joined }
           /\ Joined = {}
              => /\ ~Exists(d[n].FirewallID)
                 /\ log[n].reap \in {"kept", "deleted"}
                 /\ \E m \in Left : log[m].reap = "deleted" /\ log[m].deletes = 1
                 /\ \A k, m \in Left :
                       (log[k].reap = "deleted" /\ log[m].reap = "deleted") => k = m

\* Witness for C23: both nodes were removed in turn, the first kept the
\* firewall and the last deleted it.
C23_BothRemovedInTurn ==
    \E n, m \in 1..MaxNodes :
        /\ JoinedTogether(n, m) /\ NoFaultYet
        /\ pc[n] = "removed" /\ pc[m] = "removed"
        /\ log[n].reap = "kept" /\ log[m].reap = "deleted"
        /\ ~Exists(d[n].FirewallID)

\* A rule list in the form the driver writes: the other rules, then the
\* internal rules built from the list's own addresses.
Canonical(R) == R = SelectRules(R, FALSE) \o rke2InternalRules(collectNodeIPs(R))

\* The first call was a no-op by the claim's condition: an add of an address
\* already in the internal rules, or a removal of one that is not.
NoOpCall ==
    /\ calc.fn = "rebuild" /\ calc.n = 1
    /\ \/ calc.op = "add" /\ firewallHasNodeIP(calc.R, calc.a)
       \/ calc.op = "remove" /\ ~firewallHasNodeIP(calc.R, calc.a)

\* C24 as stated: for any rule list R, adding an address that is already a
\* source of R's internal rules, or removing one that is not, returns a list
\* equal to R.
C24_NoOpReturnsSameList == NoOpCall => calc.out = calc.R

\* C24, amended: the result equals R when R has the form the driver writes;
\* for every R the result keeps the other rules in their order and the
\* addresses of the internal rules, and has the form the driver writes.
C24_NoOpOnDriverWrittenList ==
    NoOpCall
    => /\ Canonical(calc.R) => calc.out = calc.R
       /\ SelectRules(calc.out, FALSE) = SelectRules(calc.R, FALSE)
       /\ collectNodeIPs(calc.out) = collectNodeIPs(calc.R)
       /\ Canonical(calc.out)

\* Witness for C24: a no-op add on a driver-written list with public and
\* internal rules for two addresses.
C24_NoOpAddSeen ==
    /\ NoOpCall /\ calc.op = "add"
    /\ Canonical(calc.R)
    /\ Len(collectNodeIPs(calc.R)) = 2
    /\ Len(SelectRules(calc.R, FALSE)) > 0
    /\ calc.out = calc.R

\* How often address a occurs in the list ips.
Occurrences(ips, a) ==
    Cardinality({ i \in 1..Len(ips) : IPNetString(ips[i]) = IPNetString(a) })

\* C25: for any rule list R and address a, a second call of the add rebuild
\* returns what the first returned, and likewise for the remove rebuild; the
\* addresses collected from the result hold a exactly once after adding and
\* not at all after removing.
C25_RebuildTwiceIsOnce ==
    (calc.fn = "rebuild" /\ calc.n >= 1)
    => /\ calc.n = 2 => calc.out = calc.once
       /\ calc.op = "add"
          => /\ Occurrences(collectNodeIPs(calc.out), calc.a) = 1
             /\ firewallHasNodeIP(calc.out, calc.a)
       /\ calc.op = "remove"
          => /\ Occurrences(collectNodeIPs(calc.out), calc.a) = 0
             /\ ~firewallHasNodeIP(calc.out, calc.a)

\* Witness for C25: a second add on a list the driver did not write, whose
\* first add changed it, and which did not hold the address before.
C25_SecondCallSeen ==
    /\ calc.fn = "rebuild" /\ calc.n = 2 /\ calc.op = "add"
    /\ ~Canonical(calc.R)
    /\ ~firewallHasNodeIP(calc.R, calc.a)
    /\ calc.once # calc.R
    /\ calc.out = calc.once

\* The elements of a list, as a set.
SetOf(list) == { list[i] : i \in 1..Len(list) }

\* C26: the addresses collected from the internal rules built for an address
\* list S are the addresses of S, each once (and in the order of S when S
\* repeats none); for an empty S no rule is built and nothing is collected;
\* every rule built for a non-empty S is classified as internal and has S as
\* its source list.
C26_CollectedAddressesAreBuiltOnes ==
    (calc.fn = "collect" /\ calc.step = "collected")
    => /\ SetOf(calc.ips) = SetOf(calc.S)
       /\ Len(calc.ips) = Cardinality(SetOf(calc.S))
       /\ Len(calc.S) = Cardinality(SetOf(calc.S)) => calc.ips = calc.S
       /\ calc.S = <<>> => (calc.rules = <<>> /\ calc.ips = <<>>)
       /\ calc.S # <<>>
          => /\ Len(calc.rules) = Len(InternalDescriptionStems)
             /\ \A i \in 1..Len(calc.rules) :
                   /\ isInternalRule(calc.rules[i])
                   /\ calc.rules[i].SourceIPs = calc.S

\* Witness for C26: two different addresses went through the rules and came
\* back.
C26_TwoAddressesRecovered ==
    /\ calc.fn = "collect" /\ calc.step = "collected"
    /\ Cardinality(SetOf(calc.S)) = 2
    /\ calc.ips = calc.S

\* C27: sanitizeClusterID is idempotent, and its result is at most 63
\* characters long, holds only characters of [A-Za-z0-9._-], has no two
\* hyphens in a row and neither starts nor ends with a hyphen.
C27_SanitizedIsFixedPoint ==
    (calc.fn = "clusterID" /\ calc.op = "sanitize")
    => /\ calc.n = 2 => calc.out = calc.once
       /\ Len(calc.out) <= hetznerLabelMaxLen
       /\ \A i \in 1..Len(calc.out) : calc.out[i] \in AllowedChars
       /\ \A i \in 1..(Len(calc.out) - 1) : ~(calc.out[i] = "-" /\ calc.out[i + 1] = "-")
       /\ calc.out # <<>> => (calc.out[1] # "-" /\ calc.out[Len(calc.out)] # "-")

\* Witness for C27: an identifier cut at the limit, where the cut left a
\* hyphen at the end that was trimmed, sanitized a second time.
C27_CutAtHyphenSeen ==
    /\ calc.fn = "clusterID" /\ calc.op = "sanitize" /\ calc.n = 2
    /\ Len(calc.id) > hetznerLabelMaxLen
    /\ Len(calc.once) = hetznerLabelMaxLen - 1
    /\ calc.id[hetznerLabelMaxLen] = "-"
    /\ calc.id[1] = "x"
    /\ calc.out = calc.once

\* A label value in normal form: within the length limit, of allowed
\* characters only, without two hyphens in a row or a hyphen at either end.
WellFormed(id) ==
    /\ Len(id) <= hetznerLabelMaxLen
    /\ \A i \in 1..Len(id) : id[i] \in AllowedChars
    /\ \A i \in 1..(Len(id) - 1) : ~(id[i] = "-" /\ id[i + 1] = "-")
    /\ id # <<>> => (id[1] # "-" /\ id[Len(id)] # "-")

\* C28: validateClusterID accepts an identifier exactly when it is empty or
\* equal to its own sanitized form (that is, already in normal form);
\* otherwise it returns an error and no coerced value: the "only invalid
\* characters" error when the sanitized form is empty, and the "not allowed"
\* error, which reports the sanitized form, when that differs from the input.
C28_ValidateAcceptsFixedPoints ==
    (calc.fn = "clusterID" /\ calc.op = "validate")
    => /\ (calc.err = NoErr) <=> (calc.id = <<>> \/ sanitizeClusterID(calc.id) = calc.id)
       /\ (calc.err = NoErr) <=> WellFormed(calc.id)
       /\ calc.out = calc.id
       /\ calc.err # NoErr
          => /\ calc.err.id = calc.id
             /\ sanitizeClusterID(calc.id) = <<>>
                => calc.err.code = "only_invalid_characters"
             /\ sanitizeClusterID(calc.id) # <<>>
                => /\ calc.err.code = "not_allowed"
                   /\ calc.err.sanitized = sanitizeClusterID(calc.id)
                   /\ calc.err.sanitized # calc.id

\* Witness for C28: an identifier of allowed characters only, refused because
\* it is longer than a label may be.
C28_TooLongRefused ==
    /\ calc.fn = "clusterID" /\ calc.op = "validate"
    /\ \A i \in 1..Len(calc.id) : calc.id[i] \in AllowedChars \ {"-"}
    /\ calc.err # NoErr
    /\ calc.err.code = "not_allowed"
    /\ Len(calc.err.sanitized) = hetznerLabelMaxLen

\* The configuration errors the claim names.
InvalidClusterID(c) == validateClusterID(c.ClusterID) # NoErr

BothFirewallModes(c) == c.CreateFirewall /\ Len(c.Firewalls) > 0

AutoRulesWithoutIPv4(c) ==
    c.CreateFirewall /\ c.AutoCreateFirewallRules /\ c.DisablePublicIPv4

NoConnectivity(c) == c.DisablePublicIPv4 /\ c.DisablePublicIPv6 /\ ~c.UsePrivateNetwork

\* The errors PreCreateCheck returns for a configuration.
ConfigurationCodes ==
    {"token_required", "no_network_connectivity", "auto_rules_without_public_ipv4",
     "both_firewall_modes", "cluster_id_required", "only_invalid_characters", "not_allowed"}

\* C29: PreCreateCheck returns every configuration error before its first
\* request: with an invalid cluster ID, with create-firewall together with
\* existing firewalls, with automatic rules while the public IPv4 is
\* disabled, or with both public addresses disabled and no private network,
\* it makes no request and returns an error; and whenever it returns one of
\* its configuration errors it has made no request.
C29_ConfigurationErrorsBeforeRequests ==
    calc.fn = "preCreateCheck"
    => /\ (\/ InvalidClusterID(calc.cfg) \/ BothFirewallModes(calc.cfg)
           \/ AutoRulesWithoutIPv4(calc.cfg) \/ NoConnectivity(calc.cfg))
          => /\ calc.requests = 0
             /\ calc.step \in {"config", "returned"}
             /\ calc.step = "returned" => calc.err # NoErr
       /\ (calc.err # NoErr /\ calc.err.code \in ConfigurationCodes) => calc.requests = 0
       /\ calc.requests > 0 => ConfigurationError(calc.cfg) = NoErr

\* Witness for C29: a cluster ID with a character that is not allowed was
\* refused, with a token present and no request made.
C29_InvalidIDRefusedUnasked ==
    /\ calc.fn = "preCreateCheck" /\ calc.step = "returned"
    /\ calc.cfg.APIToken # ""
    /\ ~NoConnectivity(calc.cfg) /\ ~BothFirewallModes(calc.cfg)
    /\ ~AutoRulesWithoutIPv4(calc.cfg)
    /\ calc.err # NoErr
    /\ calc.err.code = "not_allowed"
    /\ calc.requests = 0

RECURSIVE Innermost(_)
\* The error at the end of the chain.
Innermost(e) == IF e.kind = "wrapped" THEN Innermost(e.inner) ELSE e

\* C30: isNonRetriableError is true exactly for API errors with the codes
\* unauthorized, forbidden, token_readonly, invalid_input and not_found, and
\* false for every other error: conflict, rate_limit_exceeded, server_error
\* and the other API codes, and errors that are no API errors, such as a
\* cancelled context.
C30_TerminalExactlyFiveCodes ==
    (calc.fn = "isNonRetriableError" /\ calc.called)
    => LET e == Innermost(calc.err) IN
       /\ calc.result <=> (e.kind = "api" /\ e.code \in TerminalCodes)
       /\ (e.kind = "api" /\ e.code \in {"conflict", "rate_limit_exceeded", "server_error"})
          => ~calc.result
       /\ e.kind = "other" => ~calc.result

\* Witness for C30: a wrapped conflict was classified as retriable.
C30_ConflictRetriable ==
    /\ calc.fn = "isNonRetriableError" /\ calc.called
    /\ calc.err.kind = "wrapped"
    /\ Innermost(calc.err) = [kind |-> "api", code |-> "conflict"]
    /\ ~calc.result

\* The bound min(100ms * 2^n, 5s) of the claim, computed on its own: from
\* n = 6 on, 100ms * 2^n is beyond 5s.
RECURSIVE PowerOfTwo(_)
PowerOfTwo(n) == IF n = 0 THEN 1 ELSE 2 * PowerOfTwo(n - 1)

NominalDelay(n) ==
    IF n >= 6 THEN retryMaxDelay
    ELSE IF retryBaseDelay * PowerOfTwo(n) < retryMaxDelay THEN retryBaseDelay * PowerOfTwo(n)
    ELSE retryMaxDelay

\* C31: for every attempt number n >= 0, retryDelay(n) lies within
\* [0.75, 1.25] times min(100ms * 2^n, 5s), so it never exceeds 1.25 * 5s
\* however large n is; and the sleep before retry k (k >= 1) of add and of
\* remove is retryDelay(k), with no sleep before the first attempt.
C31_DelayWithinJitterOfBackoff ==
    (calc.fn = "retryDelay" /\ calc.called)
    => /\ calc.caller = "none" \/ calc.attempt > 0
          => /\ 4 * calc.delay >= 3 * NominalDelay(calc.attempt)
             /\ 4 * calc.delay <= 5 * NominalDelay(calc.attempt)
             /\ 4 * calc.delay <= 5 * retryMaxDelay
       /\ calc.caller # "none"
          => /\ calc.attempt > 0 => calc.slept = retryDelay(calc.attempt, calc.k)
             /\ calc.attempt = 0 => calc.slept = 0

\* Witness for C31: an attempt number beyond the one at which the maximum is
\* reached got the largest jitter.
C31_CapReachedWithFullJitter ==
    /\ calc.fn = "retryDelay" /\ calc.called
    /\ calc.caller = "none"
    /\ calc.attempt > 6
    /\ calc.k = MaxJitterSteps
    /\ 4 * calc.delay = 5 * retryMaxDelay

\* The addresses a read of rule list R shows: the sources of its internal rules.
AddressesRead(R) ==
    UNION { SetOf(R[i].SourceIPs) : i \in { j \in 1..Len(R) : isInternalRule(R[j]) } }

\* List `out` is the non-internal rules of R, as they are and in their
\* order, followed by the internal rule template over the addresses `want`
\* (each once), or by nothing when there is none.
KeptThenTemplate(R, out, want) ==
    LET kept == SelectRules(R, FALSE)
        rest == SubSeq(out, Len(kept) + 1, Len(out))
    IN  /\ Len(out) >= Len(kept)
        /\ SubSeq(out, 1, Len(kept)) = kept
        /\ SelectRules(out, FALSE) = kept
        /\ want = {} => rest = <<>>
        /\ want # {}
           => /\ Len(rest) = Len(InternalDescriptionStems)
              /\ rest = rke2InternalRules(rest[1].SourceIPs)
              /\ SetOf(rest[1].SourceIPs) = want
              /\ Len(rest[1].SourceIPs) = Cardinality(want)
        /\ \A b \in want : firewallHasNodeIP(out, b)

\* The list a call was made on, and the list it returned: the first call on
\* R, the second on the result of the first.
CallInput == IF calc.n = 1 THEN calc.R ELSE calc.once

CallOutput == IF calc.n = 1 THEN calc.once ELSE calc.out

\* C32: the list add builds for submission is every non-internal rule of the
\* list read, unchanged and in the same relative order, followed by the
\* internal rule template over (addresses read + own address); remove builds
\* the same over (addresses read - own address), with no internal rules when
\* that set is empty.  No other address of the read is dropped and no
\* non-internal rule is altered.
C32_RebuildKeepsOthersAndTemplate ==
    (calc.fn = "rebuild" /\ calc.n >= 1)
    => /\ calc.op = "add"
          => KeptThenTemplate(CallInput, CallOutput, AddressesRead(CallInput) \cup {calc.a})
       /\ calc.op = "remove"
          => KeptThenTemplate(CallInput, CallOutput, AddressesRead(CallInput) \ {calc.a})
       /\ \A b \in AddressesRead(CallInput) \ {calc.a} : firewallHasNodeIP(CallOutput, b)

\* Witness for C32: a removal from a list with the internal rules in front
\* that held the address and another one.
C32_RemoveFromUnorderedList ==
    /\ calc.fn = "rebuild" /\ calc.n = 1 /\ calc.op = "remove"
    /\ Len(calc.R) > 0
    /\ isInternalRule(calc.R[1])
    /\ SelectRules(calc.R, FALSE) # <<>>
    /\ calc.a \in AddressesRead(calc.R)
    /\ AddressesRead(calc.R) \ {calc.a} # {}
    /\ calc.out # calc.R

\* The errors of a failed create request.
CreationErrors == {Err("server_error"), Err("uniqueness_error")}

\* Node n's fallback lookup is answered in this step.
FallbackAnswered(n) == pc[n] = "find2" /\ pc'[n] # "find2"

\* The fallback lookup of this step fails (an injected error, or more than
\* one firewall with the cluster's label) or finds no firewall.
FallbackFindsNone(n) == budget' < budget \/ Cardinality(Matching(n)) # 1

\* C33: when the create request failed and the single fallback lookup errors
\* (duplicates included) or finds nothing, findOrCreate returns the original
\* creation error with created = false, the recorded FirewallID stays as it
\* was, and no further create or lookup is made: the node has made one
\* create and two lookups, and never makes more.
C33_FailedFallbackReturnsCreateError ==
    [][\A n \in DOMAIN pc :
          /\ (FallbackAnswered(n) /\ FallbackFindsNone(n))
             => /\ pc'[n] = "cleanup"
                /\ loc[n].err \in CreationErrors
                /\ loc'[n].err = loc[n].err
                /\ ~loc'[n].created
                /\ d'[n].FirewallID = d[n].FirewallID
                /\ d'[n].FirewallID = 0
                /\ log'[n].creates = 1 /\ log'[n].finds = 2
                /\ firewalls' = firewalls
          /\ (FallbackAnswered(n) /\ pc'[n] = "cleanup") => FallbackFindsNone(n)
          /\ log'[n].creates <= 1 /\ log'[n].finds <= 2
          /\ (pc[n] = "cleanup" /\ pc'[n] = "failed")
             => (loc'[n].err = loc[n].err /\ d'[n].FirewallID = d[n].FirewallID)
      ]_vars

\* Witness for C33: the create request was rejected, the fallback lookup
\* found nothing, and Create is about to return the creation error.
C33_CreateErrorSurfaced ==
    \E n \in DOMAIN pc :
        /\ pc[n] = "failed"
        /\ log[n].rejected /\ log[n].creates = 1 /\ log[n].finds = 2
        /\ log[n].findErr = NoErr
        /\ loc[n].err = Err("server_error")
        /\ d[n].FirewallID = 0

\* Node n is in registerWithClusterFirewall, within Create.
Registering(n) ==
    /\ ~d[n].CreateFirewall
    /\ loc[n].phase = "create"
    /\ pc[n] \in {"regFind", "addRead", "addSet", "addVerify"}

\* C34: for a node that does not manage the firewall (CreateFirewall = false,
\* cluster ID set), a lookup that finds no shared firewall ends the
\* registration without error, with FirewallID still 0 and no rule
\* submission; and however the registration ends, Create returns success
\* and the server is kept: such a node's Create never cleans up or fails.
C34_RegistrationNeverFatal ==
    [][\A n \in DOMAIN pc :
          ~d[n].CreateFirewall
          => /\ (/\ pc[n] = "regFind" /\ pc'[n] # "regFind"
                 /\ Matching(n) = {} /\ log'[n].findErr = NoErr)
                => /\ pc'[n] = "created"
                   /\ d'[n].FirewallID = 0
                   /\ log'[n].submits = 0 /\ log'[n].iters = 0 /\ log'[n].add = Nil
                   /\ firewalls' = firewalls
             /\ pc'[n] \notin {"cleanup", "failed"}
             /\ (Registering(n) /\ ~Registering(n)')
                => /\ pc'[n] = "created"
                   /\ d'[n].ServerID \in servers'
                   /\ servers' = servers
      ]_vars

\* Witness for C34: a member node was created while the cluster had no
\* firewall: its lookup returned no error and it recorded nothing.
C34_MemberCreatedUnregistered ==
    \E n \in DOMAIN pc :
        /\ ~d[n].CreateFirewall /\ pc[n] = "created"
        /\ d[n].ServerID \in servers
        /\ log[n].finds = 1 /\ log[n].findErr = NoErr
        /\ d[n].FirewallID = 0
        /\ log[n].submits = 0

\* setupFirewall of node n has returned success: Create has returned
\* success, and possibly Remove has begun or ended.
SetupSucceeded(n) ==
    /\ d[n].CreateFirewall
    /\ pc[n] = "created" \/ loc[n].phase = "remove"

FinderAttachFailed(n) ==
    /\ d[n].CreateFirewall
    /\ loc[n].phase = "create"
    /\ log[n].attachFailed
    /\ ~loc[n].created

\* C36: on the attach-failure path of setupFirewall the firewall is deleted
\* only by the node that created it in this call: a node that merely found
\* the firewall deletes none, so its failed join does not take the firewall
\* away from a node whose Create is still under way.
C36_OnlyCreatorDeletesOnAttachFailure ==
    \A n \in DOMAIN pc :
        FinderAttachFailed(n) => (log[n].deletes = 0 /\ log[n].reap # "deleted")

\* The nodes that have begun a call of add on firewall id.
Adders(id) == { n \in DOMAIN pc : d[n].FirewallID = id /\ log[n].iters > 0 }

\* C37: when exactly two nodes run add on an existing firewall and no API
\* request fails, a call that has returned has returned success, at most one
\* of the two calls begins a second attempt, none begins a third, and
\* neither makes more than two rule submissions.
C37_TwoAddersOneRetry ==
    \A id \in 1..(nextFirewallID - 1) :
        Cardinality(Adders(id)) = 2
        => /\ \A n \in Adders(id) :
                 /\ log[n].add \in {Nil, "ok"}
                 /\ log[n].add = Nil <=> AddInProgress(n)
                 /\ log[n].iters <= 2
                 /\ log[n].submits <= 2
                 /\ pc[n] \notin {"cleanup", "failed"}
           /\ \E n \in Adders(id) : log[n].iters = 1

\* Witness for C37: two nodes added their addresses to the same firewall
\* concurrently; both returned success, one of them after a second attempt
\* with a second submission.
C37_OneAdderRetried ==
    \E n, m \in DOMAIN pc :
        /\ n # m
        /\ d[n].FirewallID = d[m].FirewallID
        /\ log[n].add = "ok" /\ log[m].add = "ok"
        /\ log[n].iters = 2 /\ log[n].submits = 2 /\ log[n].verifyFailed
        /\ log[m].iters = 1 /\ log[m].submits = 1

\* Every node manages the firewall and its Remove has returned.
AllOwnersRemoved == \A n \in DOMAIN pc : d[n].CreateFirewall /\ pc[n] = "removed"

\* No server is left of the nodes that recorded node n's firewall.
LastToLeave(n) ==
    \A m \in DOMAIN pc : d[m].FirewallID = d[n].FirewallID => d[m].ServerID \notin servers

\* Node n's orphan check within Remove gets the answer to its read.
OrphanCheckReads(n) ==
    /\ pc[n] = "reapRead" /\ pc'[n] # "reapRead"
    /\ loc[n].phase = "remove"

\* C38: when every node that manages the firewall has run Remove, in any
\* interleaving, and no API request has failed, then once all Removes have
\* returned no firewall of the cluster is left and each was deleted by one
\* of the orphan checks; and an orphan check that reads after the last
\* server of the firewall was deleted is shown an empty AppliedTo list, or
\* no firewall any more.
C38_AllRemovedFirewallDeleted ==
    [][/\ (AllOwnersRemoved /\ NoFaultYet)'
          => /\ firewalls' = << >>
             /\ servers' = {}
             /\ \A n \in DOMAIN pc :
                   \E m \in DOMAIN pc :
                       /\ d'[m].FirewallID = d'[n].FirewallID
                       /\ log'[m].reap = "deleted"
       /\ \A n \in DOMAIN pc :
             (OrphanCheckReads(n) /\ LastToLeave(n) /\ NoFaultYet')
             => \/ pc'[n] = "reapDelete" /\ loc'[n].fw.AppliedTo = {}
                \/ log'[n].reap = "gone"
      ]_vars

\* Witness for C38: two nodes were removed concurrently without an API
\* error; both orphan checks read an empty AppliedTo list, one deleted the
\* firewall and the other was answered that it is gone.
C38_BothReadEmpty ==
    \E n, m \in DOMAIN pc :
        /\ n # m
        /\ AllOwnersRemoved /\ NoFaultYet
        /\ d[n].FirewallID = d[m].FirewallID
        /\ log[n].reap = "deleted"
        /\ log[m].reap = "delete_failed" /\ log[m].deletes = 1
        /\ firewalls = << >>

\* Remove of node n has returned the error of the server deletion, and the
\* server is still there.
RemoveFailedServerKept(n) ==
    /\ pc[n] = "removed"
    /\ loc[n].err = Err("server_delete_failed")
    /\ d[n].ServerID \in servers

\* C39: when Remove returns an error because the server could not be
\* deleted, the call has left the firewall's membership as it was: an
\* address that the call read in the internal rules (it submits rules only
\* then) is still registered there for the server that still exists.
C39_FailedRemoveKeepsAddress ==
    \A n \in DOMAIN pc :
        (/\ RemoveFailedServerKept(n)
         /\ log[n].rmSubmits > 0
         /\ Exists(d[n].FirewallID))
        => firewallHasNodeIP(firewalls[d[n].FirewallID].Rules, NodeIP(n))
====
